---- MODULE Spec2Model ----
(***************************************************************************)
(* Model of the provider-fallback fetch-and-cache orchestrator of          *)
(* backend/app: asset_manager.fetch_stock_history over the cache store     *)
(* (asset_cache.py) and the usage ledger (usage.py).                       *)
(*                                                                         *)
(* Time is the wall clock in tenths of a second, so that the sleeps of     *)
(* 0.1 s, 0.2 s and 1.1 s of the source are whole numbers.                 *)
(***************************************************************************)
EXTENDS Integers, Sequences, FiniteSets, TLC

VARIABLES
    clock,      \* time.time(), in tenths of a second
    cache,      \* asset_cache.json: symbol -> entry, for key "stock:<symbol>:daily"
    usage,      \* usage.json: [daily, minute, stats]
    jit,        \* abs(hash(key)) % 31 of the running interpreter, per symbol
    pc,         \* per caller: position inside fetch_stock_history
    loc,        \* per caller: arguments and local variables of the call
    res,        \* per caller: what the last call gave back
    stooqInv,   \* history: number of fetch_stooq_daily invocations so far
    alphaInv,   \* history: the times at which fetch_alpha_daily was invoked
    recLog,     \* history: the times passed to record_provider_call("alpha", .)
    ncalls,     \* history: number of fetch_stock_history calls started
    nticks,     \* history: number of idle clock advances
    batch,      \* _safe_analyze_assets: watchlist, position, results, errors
    frame,      \* resample_history: its arguments and the frame it returns
    response    \* fetch_stooq_daily: the HTTP response and what it returns

vars == <<clock, cache, usage, jit, pc, loc, res, stooqInv, alphaInv, recLog,
          ncalls, nticks, batch, frame,
          response>>

----------------------------------------------------------------------------
(* Units of time *)

Second == 10
Minute == 60 * Second
Hour   == 60 * Minute
Day    == 24 * Hour

(* Program constants *)

ALPHA_DAILY_BUDGET == 10
ALPHA_PER_MINUTE_BUDGET == 5
ALPHA_VANTAGE_MIN_REQUEST_INTERVAL == 11
STOOQ_MIN_REQUEST_DELAY_SECONDS == 2
WindowSeconds == 60
MinSleep == 1
MinRows == 25
MaxShortWindow == 90
MaxJitterMinutes == 30
StooqExpiryHour == 1
AlphaExpiryHour == 6

(* Bounds of the model *)

MaxCalls == 2
MaxTicks == 1
MaxBudgetCalls == 12
MaxBudgetTicks == 2
MaxRaises == 1
MaxRepeatCalls == 4
MaxRepeatTicks == 3
MaxStaleCalls == 7
MaxStaleTicks == 1
MaxDelayCalls == 6
MaxDelayTicks == 2
MaxExpiryCalls == 3
MaxExpiryTicks == 1
MaxLedgerOps == 6
MaxLedgerTicks == 1
MaxStoreCalls == 4
MaxGateCalls == 11
MaxGateTicks == 1
MaxBatches == 2
MaxBatchTicks == 1
MaxBars == 3
MaxDate == 13
MaxRunStart == 6
MaxCsvRows == 3
MaxWindowOps == 4
MaxWindowTicks == 2
MaxSlotRecords == 11
MaxSlotWaits == 1
MaxSlotTicks == 1
MaxRaceCalls == 2
MaxRushCalls == 6

Procs == {1, 2}
Symbols == {"AAPL", "MSFT"}
Providers == {"alpha", "fred"}
Modes == {"daily", "force"}
Shapes == {<<"1d", 60>>, <<"daily", 0>>, <<"1d", 24>>, <<"1d", 91>>, <<"1w", 24>>}
AlphaKeys == {"", "demo"}
JitterMaps == {[s \in Symbols |-> IF s = "AAPL" THEN 0 ELSE MaxJitterMinutes]}
StartClocks == {12 * Hour}
LongStep == 26 * Hour
ShortStep == 20 * Second
WindowStep == (WindowSeconds + 1) * Second
NetDelays == {0, 20 * Second}
NetDelay == 20 * Second

LastDay == 1 + ((12 * Hour + (MaxTicks + 2) * LongStep) \div Day)
Days == 0..LastDay

----------------------------------------------------------------------------
(* Rows.  A row list is a sequence of dates; Rows(v, n) is the n-row       *)
(* response number v of a provider.                                        *)

Rows(v, n) == [i \in 1..n |-> 100 * v + i]
NoData == << >>

StooqRowsets == {Rows(1, 24), Rows(1, 25)}
AlphaRowsets == {Rows(3, 30), Rows(4, 5)}
StooqErrors == {"network", "symbol_not_found"}
AlphaErrors == {"Note"}

\* data[-k:] of Python
TailSlice(data, k) ==
    LET n == Len(data)
        from == IF k > 0 THEN (IF k >= n THEN 1 ELSE n - k + 1)
                ELSE (IF -k >= n THEN n + 1 ELSE -k + 1)
    IN  SubSeq(data, from, n)

IsSorted(data) == \A i \in 1..(Len(data) - 1) : data[i] <= data[i + 1]

RECURSIVE InsertSorted(_, _)
InsertSorted(x, s) ==
    IF s = << >> THEN <<x>>
    ELSE IF x < Head(s) THEN <<x>> \o s
    ELSE <<Head(s)>> \o InsertSorted(x, Tail(s))

RECURSIVE SortRows(_)
SortRows(data) ==
    IF data = << >> THEN << >>
    ELSE InsertSorted(data[Len(data)], SortRows(SubSeq(data, 1, Len(data) - 1)))

\* _to_dataframe: index by date, sort_index (stable)
ToDataframe(data) == IF IsSorted(data) THEN data ELSE SortRows(data)

Truthy(data) == data # NoData

IsInsufficient(data, interval, chart_points) ==
    IF interval \notin {"1d", "daily"} THEN FALSE
    ELSE IF chart_points > MaxShortWindow THEN FALSE
    ELSE Len(TailSlice(data, chart_points)) < MinRows

----------------------------------------------------------------------------
(* What a JSON file of the program may hold in place of its dict *)

AbsentFile == [absent |-> TRUE]
GarbageFile == [text |-> "not json"]
UndecodableFile == [bytes |-> "not utf-8"]
NonObjectFile == [json |-> "array"]

\* _load_cache and _load_usage catch json.JSONDecodeError only
LoadRaises(f) == "bytes" \in DOMAIN f

IsObject(u) == "json" \notin DOMAIN u

----------------------------------------------------------------------------
(* Cache store *)

NoEntry == [provider |-> "none", fetched_at |-> -1, expires_at |-> -1, data |-> NoData]

EmptyCache == [s \in Symbols |-> NoEntry]

\* _load_cache, asset_cache.py:29-35
LoadCache(f) ==
    IF "absent" \in DOMAIN f \/ "text" \in DOMAIN f THEN EmptyCache ELSE f

\* get_entry and set_entry raise on the file: json.load raises, or what it
\* gives has no .get and takes no key
StoreFails(f) == LoadRaises(f) \/ ~IsObject(LoadCache(f))

GetEntryOtherKey(c, key) == NoEntry

GetEntry(c, key) == LoadCache(c)[key]

\* set_entry writing a store that holds the one entry only
SetEntryInAlone(c, key, entry) == [k \in DOMAIN c |-> IF k = key THEN entry ELSE NoEntry]

SetEntryInNotStored(c, key, entry) == c

SetEntryIn(c, key, entry) == [c EXCEPT ![key] = entry]

(* Expiry *)

JitterMinutes(key) == jit[key]

\* _next_day_at without the step to the next day
NextDayAtSameDay(hour, minute, key, t) ==
    (t \div Day) * Day + hour * Hour + minute * Minute
        + JitterMinutes(key) * Minute

NextDayAt(hour, minute, key, t) ==
    ((t \div Day) + 1) * Day + hour * Hour + minute * Minute
        + JitterMinutes(key) * Minute

ExpiryForProviderSameHour(provider, key, t) ==
    NextDayAt(StooqExpiryHour, 0, key, t)

ExpiryForProvider(provider, key, t) ==
    IF provider = "alpha" THEN NextDayAt(AlphaExpiryHour, 0, key, t)
    ELSE NextDayAt(StooqExpiryHour, 0, key, t)

----------------------------------------------------------------------------
(* Usage ledger *)

EmptyUsage ==
    [daily  |-> [pr \in Providers |-> [d \in Days |-> 0]],
     minute |-> [pr \in Providers |-> << >>],
     stats  |-> [cache_hits |-> 0, requests |-> 0, stooq_failures |-> 0]]

TodayKey(t) == t \div Day

InWindow(minute, t) ==
    LET Keep(ts) == t - ts <= WindowSeconds * Second
    IN  SelectSeq(minute, Keep)

RecordRequestAlwaysHit(u, cache_hit) ==
    [u EXCEPT !.stats.requests = @ + 1, !.stats.cache_hits = @ + 1]

RecordRequestNeverHit(u, cache_hit) ==
    [u EXCEPT !.stats.requests = @ + 1]

RecordRequest(u, cache_hit) ==
    [u EXCEPT !.stats.requests = @ + 1,
              !.stats.cache_hits = IF cache_hit THEN @ + 1 ELSE @]

RecordStooqFailure(u) == [u EXCEPT !.stats.stooq_failures = @ + 1]

\* record_provider_call that starts the provider's days anew
RecordProviderCallResetsDays(u, provider, t) ==
    [u EXCEPT !.daily[provider] =
                 [d \in DOMAIN @ |-> IF d = TodayKey(t) THEN @[d] + 1 ELSE 0],
              !.minute[provider] = InWindow(Append(@, t), t)]

RecordProviderCall(u, provider, t) ==
    [u EXCEPT !.daily[provider][TodayKey(t)] = @ + 1,
              !.minute[provider] = InWindow(Append(@, t), t)]

AlphaUsedToday(u, t) == u.daily["alpha"][TodayKey(t)]

AlphaCallsLastMinute(u, t) == Len(InWindow(u.minute["alpha"], t))

\* can_use_alpha admitting a call when the minute window is already full
CanUseAlphaFullWindow(u, t) ==
    /\ AlphaUsedToday(u, t) < ALPHA_DAILY_BUDGET
    /\ AlphaCallsLastMinute(u, t) <= ALPHA_PER_MINUTE_BUDGET

CanUseAlphaDailyOffByOne(u, t) ==
    IF AlphaUsedToday(u, t) > ALPHA_DAILY_BUDGET THEN FALSE
    ELSE IF AlphaCallsLastMinute(u, t) >= ALPHA_PER_MINUTE_BUDGET THEN FALSE
    ELSE TRUE

CanUseAlpha(u, t) ==
    IF AlphaUsedToday(u, t) >= ALPHA_DAILY_BUDGET THEN FALSE
    ELSE IF AlphaCallsLastMinute(u, t) >= ALPHA_PER_MINUTE_BUDGET THEN FALSE
    ELSE TRUE

\* the loop looking at the minute window before the daily budget
SlotSleepWindowFirst(u, t) ==
    LET minute == InWindow(u.minute["alpha"], t)
    IN  IF Len(minute) < ALPHA_PER_MINUTE_BUDGET THEN 0
        ELSE LET oldest == CHOOSE x \in {minute[i] : i \in 1..Len(minute)} :
                              \A j \in 1..Len(minute) : x <= minute[j]
                 left == WindowSeconds * Second - (t - oldest)
             IN  IF left > MinSleep THEN left ELSE MinSleep

\* wait_for_alpha_slot, one turn of its loop at time t: 0 when it returns,
\* otherwise the time it sleeps before looking again
SlotSleep(u, t) ==
    IF AlphaUsedToday(u, t) >= ALPHA_DAILY_BUDGET THEN 0
    ELSE LET minute == InWindow(u.minute["alpha"], t)
         IN  IF Len(minute) < ALPHA_PER_MINUTE_BUDGET THEN 0
             ELSE LET oldest == CHOOSE x \in {minute[i] : i \in 1..Len(minute)} :
                                   \A j \in 1..Len(minute) : x <= minute[j]
                      left == WindowSeconds * Second - (t - oldest)
                  IN  IF left > MinSleep THEN left ELSE MinSleep

----------------------------------------------------------------------------
(* fetch_stock_history *)

NoResult ==
    [status |-> "none", data |-> NoData, provider |-> "none", fetched_at |-> -1,
     expires_at |-> -1, is_stale |-> FALSE, cache_status |-> "none",
     stooq_error |-> "none", alpha_error |-> "none", value |-> [kind |-> "none"]]

Raised == [NoResult EXCEPT !.status = "raised"]

\* the fields from pre_usage on are history: the stores and counters as the
\* call found them, the two adapters' answers, and whether the caller's
\* previous call for the same symbol ended in total failure
InitLoc ==
    [op |-> "fetch_stock_history", provider |-> "alpha", symbol |-> "AAPL",
     interval |-> "1d", chart_points |-> 60, mode |-> "daily",
     alpha_key |-> "", cached |-> NoEntry, now |-> 0, stooq_error |-> "none",
     data |-> NoData, err |-> "none", entry |-> NoEntry,
     cbuf |-> [s \in Symbols |-> NoEntry], ubuf |-> EmptyUsage,
     pre_usage |-> EmptyUsage, pre_cache |-> [s \in Symbols |-> NoEntry],
     pre_stooq |-> 0, pre_alpha |-> 0, pre_rec |-> 0,
     sdata |-> NoData, serr |-> "none", adata |-> NoData, aerr |-> "none",
     prev_none |-> FALSE]

\* no multi-symbol request has been made
NoBatch ==
    [watchlist |-> << >>, i |-> 0, stage |-> "none", results |-> << >>,
     errors |-> << >>, outcomes |-> << >>, n |-> 0, alpha_key |-> ""]

\* a frame without columns and rows, and resample_history not called
NoDf == [columns |-> {}, rows |-> << >>]

NoFrame == [df |-> NoDf, interval |-> "1d", out |-> NoDf, stage |-> "none"]

\* no request has been sent to the primary provider
NoResponse ==
    [ok |-> TRUE, head |-> "", rows |-> << >>, data |-> NoData, err |-> "none",
     stage |-> "none"]

Init ==
    /\ clock \in StartClocks
    /\ cache = [s \in Symbols |-> NoEntry]
    /\ usage = EmptyUsage
    /\ jit \in JitterMaps
    /\ pc = [p \in Procs |-> "idle"]
    /\ loc = [p \in Procs |-> InitLoc]
    /\ res = [p \in Procs |-> NoResult]
    /\ stooqInv = 0
    /\ alphaInv = << >>
    /\ recLog = << >>
    /\ ncalls = 0
    /\ nticks = 0
    /\ batch = NoBatch
    /\ frame = NoFrame
    /\ response = NoResponse

\* lines 150-152: the cache key, get_entry, _now
Begin(p, symbol, mode, interval, chart_points, alpha_key) ==
    /\ pc[p] = "idle"
    /\ ~StoreFails(cache)
    /\ loc' = [loc EXCEPT ![p] =
                 [InitLoc EXCEPT !.symbol = symbol, !.mode = mode,
                                 !.interval = interval,
                                 !.chart_points = chart_points,
                                 !.alpha_key = alpha_key,
                                 !.cached = GetEntry(cache, symbol),
                                 !.now = clock,
                                 !.pre_usage = usage, !.pre_cache = cache,
                                 !.pre_stooq = stooqInv,
                                 !.pre_alpha = Len(alphaInv),
                                 !.pre_rec = Len(recLog),
                                 !.prev_none = /\ res[p].status = "returned"
                                               /\ res[p].provider = "none"
                                               /\ loc[p].symbol = symbol]]
    /\ res' = [res EXCEPT ![p] = NoResult]
    /\ pc' = [pc EXCEPT ![p] = "check"]
    /\ ncalls' = ncalls + 1
    /\ UNCHANGED <<response, frame, batch, clock, cache, usage, jit, stooqInv, alphaInv, recLog, nticks>>

IsHitExpiryInverted(l) ==
    /\ l.cached # NoEntry
    /\ l.cached.expires_at <= l.now
    /\ l.mode # "force"

\* line 155
IsHit(l) ==
    /\ l.cached # NoEntry
    /\ l.cached.expires_at > l.now
    /\ l.mode # "force"

\* the hit return reporting the call's own time as fetched_at
ReturnHitStampsNow(p) ==
    /\ pc[p] = "check"
    /\ IsHit(loc[p])
    /\ usage' = RecordRequest(usage, TRUE)
    /\ res' = [res EXCEPT ![p] =
                 [NoResult EXCEPT !.status = "returned",
                                  !.data = ToDataframe(loc[p].cached.data),
                                  !.provider = loc[p].cached.provider,
                                  !.fetched_at = loc[p].now,
                                  !.expires_at = loc[p].cached.expires_at,
                                  !.is_stale = FALSE,
                                  !.cache_status = "hit"]]
    /\ pc' = [pc EXCEPT ![p] = "idle"]
    /\ UNCHANGED <<response, frame, batch, clock, cache, jit, loc, stooqInv, alphaInv, recLog, ncalls, nticks>>

\* lines 155-165
ReturnHit(p) ==
    /\ pc[p] = "check"
    /\ IsHit(loc[p])
    /\ usage' = RecordRequest(usage, TRUE)
    /\ res' = [res EXCEPT ![p] =
                 [NoResult EXCEPT !.status = "returned",
                                  !.data = ToDataframe(loc[p].cached.data),
                                  !.provider = loc[p].cached.provider,
                                  !.fetched_at = loc[p].cached.fetched_at,
                                  !.expires_at = loc[p].cached.expires_at,
                                  !.is_stale = FALSE,
                                  !.cache_status = "hit"]]
    /\ pc' = [pc EXCEPT ![p] = "idle"]
    /\ UNCHANGED <<response, frame, batch, clock, cache, jit, loc, stooqInv, alphaInv, recLog, ncalls, nticks>>

RefreshWantedIgnoresForce(l) ==
    \/ l.cached = NoEntry
    \/ l.cached.expires_at <= l.now

\* lines 169 and 204: the entry is absent or expired, or the refresh is forced
RefreshWanted(l) ==
    \/ l.mode = "force"
    \/ l.cached = NoEntry
    \/ l.cached.expires_at <= l.now

\* lines 167-169 with a caller that finds another call for its key in flight
\* going on without the providers
EnterRefreshJoinsInFlight(p) ==
    /\ pc[p] = "check"
    /\ ~IsHit(loc[p])
    /\ LET inflight == \E q \in Procs \ {p} :
                          /\ pc[q] \notin {"idle", "check", "slot"}
                          /\ loc[q].symbol = loc[p].symbol
       IN  pc' = [pc EXCEPT ![p] = IF inflight THEN "fallback"
                                   ELSE IF RefreshWanted(loc[p]) THEN "stooq"
                                   ELSE "alpha_gate"]
    /\ UNCHANGED <<response, frame, batch, clock, cache, usage, jit, loc, res, stooqInv, alphaInv, recLog, ncalls, nticks>>

\* record_provider_call holding the usage file from its load to its save
RecordCallSaveLocked(p) ==
    /\ pc[p] = "rec_save"
    /\ usage' = RecordProviderCall(usage, "alpha", loc[p].now)
    /\ loc' = [loc EXCEPT ![p].ubuf = InitLoc.ubuf]
    /\ recLog' = Append(recLog, loc[p].now)
    /\ clock' = clock + ALPHA_VANTAGE_MIN_REQUEST_INTERVAL
    /\ pc' = [pc EXCEPT ![p] = "alpha_ret"]
    /\ UNCHANGED <<response, frame, batch, cache, jit, res, stooqInv, alphaInv, ncalls, nticks>>

\* lines 167-169
EnterRefresh(p) ==
    /\ pc[p] = "check"
    /\ ~IsHit(loc[p])
    /\ pc' = [pc EXCEPT ![p] = IF RefreshWanted(loc[p]) THEN "stooq" ELSE "alpha_gate"]
    /\ UNCHANGED <<response, frame, batch, clock, cache, usage, jit, loc, res, stooqInv, alphaInv, recLog, ncalls, nticks>>

\* lines 171-172: fetch_stooq_daily gives (rows, None) or (None, error) after
\* d of network time, then the courtesy delay
FetchStooq(p, data, err, d) ==
    /\ pc[p] = "stooq"
    /\ stooqInv' = stooqInv + 1
    /\ loc' = [loc EXCEPT ![p].data = data, ![p].err = err,
                           ![p].sdata = data, ![p].serr = err]
    /\ clock' = clock + d + STOOQ_MIN_REQUEST_DELAY_SECONDS
    /\ pc' = [pc EXCEPT ![p] = "stooq_ret"]
    /\ UNCHANGED <<response, frame, batch, cache, usage, jit, res, alphaInv, recLog, ncalls, nticks>>

\* line 171: requests.get raises inside fetch_stooq_daily (providers.py:227)
StooqRaises(p, d) ==
    /\ pc[p] = "stooq"
    /\ stooqInv' = stooqInv + 1
    /\ clock' = clock + d
    /\ res' = [res EXCEPT ![p] = Raised]
    /\ pc' = [pc EXCEPT ![p] = "idle"]
    /\ UNCHANGED <<response, frame, batch, cache, usage, jit, loc, alphaInv, recLog, ncalls, nticks>>

\* line 175 without the sufficiency check
StooqGoodAnyRows(l) == Truthy(l.data)

\* line 175
StooqGood(l) ==
    Truthy(l.data) /\ ~IsInsufficient(l.data, l.interval, l.chart_points)

\* lines 175-183
StooqSufficient(p) ==
    /\ pc[p] = "stooq_ret"
    /\ StooqGood(loc[p])
    /\ loc' = [loc EXCEPT ![p].entry =
                 [provider |-> "stooq", fetched_at |-> loc[p].now,
                  expires_at |-> ExpiryForProvider("stooq", loc[p].symbol, clock),
                  data |-> loc[p].data]]
    /\ pc' = [pc EXCEPT ![p] = "set_load"]
    /\ UNCHANGED <<response, frame, batch, clock, cache, usage, jit, res, stooqInv, alphaInv, recLog, ncalls, nticks>>

\* the failure branch counting a failure for an error only
StooqFailedCountsErrorsOnly(p) ==
    /\ pc[p] = "stooq_ret"
    /\ ~StooqGood(loc[p])
    /\ LET l == loc[p]
           insuff == Truthy(l.data) /\ IsInsufficient(l.data, l.interval, l.chart_points)
           haserr == l.err # "none"
       IN  /\ usage' = IF haserr THEN RecordStooqFailure(usage) ELSE usage
           /\ loc' = [loc EXCEPT ![p].stooq_error =
                        IF haserr THEN l.err
                        ELSE IF insuff THEN "insufficient" ELSE "none"]
    /\ pc' = [pc EXCEPT ![p] = "alpha_gate"]
    /\ UNCHANGED <<response, frame, batch, clock, cache, jit, res, stooqInv, alphaInv, recLog, ncalls, nticks>>

\* lines 196-201
StooqFailed(p) ==
    /\ pc[p] = "stooq_ret"
    /\ ~StooqGood(loc[p])
    /\ LET l == loc[p]
           insuff == Truthy(l.data) /\ IsInsufficient(l.data, l.interval, l.chart_points)
           haserr == l.err # "none"
           u1 == IF insuff THEN RecordStooqFailure(usage) ELSE usage
           u2 == IF haserr THEN RecordStooqFailure(u1) ELSE u1
       IN  /\ usage' = u2
           /\ loc' = [loc EXCEPT ![p].stooq_error =
                        IF haserr THEN l.err
                        ELSE IF insuff THEN "insufficient" ELSE "none"]
    /\ pc' = [pc EXCEPT ![p] = "alpha_gate"]
    /\ UNCHANGED <<response, frame, batch, clock, cache, jit, res, stooqInv, alphaInv, recLog, ncalls, nticks>>

\* set_entry, asset_cache.py:66
SetEntryLoad(p) ==
    /\ pc[p] = "set_load"
    /\ loc' = [loc EXCEPT ![p].cbuf = LoadCache(cache)]
    /\ pc' = [pc EXCEPT ![p] = "set_save"]
    /\ UNCHANGED <<response, frame, batch, clock, cache, usage, jit, res, stooqInv, alphaInv, recLog, ncalls, nticks>>

\* set_entry, asset_cache.py:67-68
SetEntrySave(p) ==
    /\ pc[p] = "set_save"
    /\ cache' = SetEntryIn(loc[p].cbuf, loc[p].symbol, loc[p].entry)
    /\ loc' = [loc EXCEPT ![p].cbuf = InitLoc.cbuf]
    /\ pc' = [pc EXCEPT ![p] = "ret_miss"]
    /\ UNCHANGED <<response, frame, batch, clock, usage, jit, res, stooqInv, alphaInv, recLog, ncalls, nticks>>

\* lines 185-193 and 223-233
ReturnMiss(p) ==
    /\ pc[p] = "ret_miss"
    /\ usage' = RecordRequest(usage, FALSE)
    /\ res' = [res EXCEPT ![p] =
                 [NoResult EXCEPT !.status = "returned",
                                  !.data = ToDataframe(loc[p].entry.data),
                                  !.provider = loc[p].entry.provider,
                                  !.fetched_at = loc[p].now,
                                  !.expires_at = loc[p].entry.expires_at,
                                  !.is_stale = FALSE,
                                  !.cache_status = "miss",
                                  !.stooq_error = loc[p].stooq_error,
                                  !.alpha_error = IF loc[p].entry.provider = "alpha"
                                                  THEN loc[p].err ELSE "none"]]
    /\ pc' = [pc EXCEPT ![p] = "idle"]
    /\ UNCHANGED <<response, frame, batch, clock, cache, jit, loc, stooqInv, alphaInv, recLog, ncalls, nticks>>

AlphaOpenUnlessCached(l, u) ==
    /\ l.cached = NoEntry
    /\ l.alpha_key # ""
    /\ CanUseAlpha(u, l.now)

AlphaOpenIgnoresBudget(l, u) ==
    /\ RefreshWanted(l)
    /\ l.alpha_key # ""

\* lines 204-205
AlphaOpen(l, u) ==
    /\ RefreshWanted(l)
    /\ l.alpha_key # ""
    /\ CanUseAlpha(u, l.now)

EnterAlpha(p) ==
    /\ pc[p] = "alpha_gate"
    /\ AlphaOpen(loc[p], usage)
    /\ pc' = [pc EXCEPT ![p] = "wait"]
    /\ UNCHANGED <<response, frame, batch, clock, cache, usage, jit, loc, res, stooqInv, alphaInv, recLog, ncalls, nticks>>

SkipAlpha(p) ==
    /\ pc[p] = "alpha_gate"
    /\ ~AlphaOpen(loc[p], usage)
    /\ pc' = [pc EXCEPT ![p] = "fallback"]
    /\ UNCHANGED <<response, frame, batch, clock, cache, usage, jit, loc, res, stooqInv, alphaInv, recLog, ncalls, nticks>>

\* line 207 with a wait that returns at once
WaitForAlphaSlotReturnsAtOnce(p) ==
    /\ pc[p] = "wait"
    /\ pc' = [pc EXCEPT ![p] = "alpha"]
    /\ UNCHANGED <<response, frame, batch, clock, cache, usage, jit, loc, res, stooqInv, alphaInv, recLog, ncalls, nticks>>

\* line 207: one turn of the loop of wait_for_alpha_slot
WaitForAlphaSlot(p) ==
    /\ pc[p] = "wait"
    /\ LET s == SlotSleep(usage, clock)
       IN  /\ clock' = clock + s
           /\ pc' = [pc EXCEPT ![p] = IF s = 0 THEN "alpha" ELSE "wait"]
    /\ UNCHANGED <<response, frame, batch, cache, usage, jit, loc, res, stooqInv, alphaInv, recLog, ncalls, nticks>>

\* line 208: fetch_alpha_daily gives (rows, None) or (None, error)
FetchAlpha(p, data, err, d) ==
    /\ pc[p] = "alpha"
    /\ alphaInv' = Append(alphaInv, clock)
    /\ loc' = [loc EXCEPT ![p].data = data, ![p].err = err,
                           ![p].adata = data, ![p].aerr = err]
    /\ clock' = clock + d
    /\ pc' = [pc EXCEPT ![p] = "rec_load"]
    /\ UNCHANGED <<response, frame, batch, cache, usage, jit, res, stooqInv, ncalls, nticks, recLog>>

\* line 208: requests.get raises inside fetch_alpha_daily (providers.py:299)
AlphaRaises(p, d) ==
    /\ pc[p] = "alpha"
    /\ alphaInv' = Append(alphaInv, clock)
    /\ clock' = clock + d
    /\ res' = [res EXCEPT ![p] = Raised]
    /\ pc' = [pc EXCEPT ![p] = "idle"]
    /\ UNCHANGED <<response, frame, batch, cache, usage, jit, loc, stooqInv, ncalls, nticks, recLog>>

\* lines 209-210 with the call recorded only when the provider gave rows
RecordCallSaveOnlyRows(p) ==
    /\ pc[p] = "rec_save"
    /\ usage' = IF Truthy(loc[p].data)
                THEN RecordProviderCall(loc[p].ubuf, "alpha", loc[p].now)
                ELSE usage
    /\ loc' = [loc EXCEPT ![p].ubuf = InitLoc.ubuf]
    /\ recLog' = IF Truthy(loc[p].data) THEN Append(recLog, loc[p].now) ELSE recLog
    /\ clock' = clock + ALPHA_VANTAGE_MIN_REQUEST_INTERVAL
    /\ pc' = [pc EXCEPT ![p] = "alpha_ret"]
    /\ UNCHANGED <<response, frame, batch, cache, jit, res, stooqInv, alphaInv, ncalls, nticks>>

\* line 209: record_provider_call, usage.py:91
RecordCallLoad(p) ==
    /\ pc[p] = "rec_load"
    /\ loc' = [loc EXCEPT ![p].ubuf = usage]
    /\ pc' = [pc EXCEPT ![p] = "rec_save"]
    /\ UNCHANGED <<response, frame, batch, clock, cache, usage, jit, res, stooqInv, alphaInv, recLog, ncalls, nticks>>

\* lines 209-210: record_provider_call, usage.py:92-100, then the mandatory delay
RecordCallSave(p) ==
    /\ pc[p] = "rec_save"
    /\ usage' = RecordProviderCall(loc[p].ubuf, "alpha", loc[p].now)
    /\ loc' = [loc EXCEPT ![p].ubuf = InitLoc.ubuf]
    /\ recLog' = Append(recLog, loc[p].now)
    /\ clock' = clock + ALPHA_VANTAGE_MIN_REQUEST_INTERVAL
    /\ pc' = [pc EXCEPT ![p] = "alpha_ret"]
    /\ UNCHANGED <<response, frame, batch, cache, jit, res, stooqInv, alphaInv, ncalls, nticks>>

\* lines 212-221
AlphaSucceeded(p) ==
    /\ pc[p] = "alpha_ret"
    /\ Truthy(loc[p].data)
    /\ loc' = [loc EXCEPT ![p].entry =
                 [provider |-> "alpha", fetched_at |-> loc[p].now,
                  expires_at |-> ExpiryForProvider("alpha", loc[p].symbol, clock),
                  data |-> loc[p].data]]
    /\ pc' = [pc EXCEPT ![p] = "set_load"]
    /\ UNCHANGED <<response, frame, batch, clock, cache, usage, jit, res, stooqInv, alphaInv, recLog, ncalls, nticks>>

\* line 212, no rows
AlphaFailed(p) ==
    /\ pc[p] = "alpha_ret"
    /\ ~Truthy(loc[p].data)
    /\ pc' = [pc EXCEPT ![p] = "fallback"]
    /\ UNCHANGED <<response, frame, batch, clock, cache, usage, jit, loc, res, stooqInv, alphaInv, recLog, ncalls, nticks>>

ReturnStaleAsHit(p) ==
    /\ pc[p] = "fallback"
    /\ loc[p].cached # NoEntry
    /\ usage' = RecordRequest(usage, TRUE)
    /\ res' = [res EXCEPT ![p] =
                 [NoResult EXCEPT !.status = "returned",
                                  !.data = ToDataframe(loc[p].cached.data),
                                  !.provider = loc[p].cached.provider,
                                  !.fetched_at = loc[p].cached.fetched_at,
                                  !.expires_at = loc[p].cached.expires_at,
                                  !.is_stale = FALSE,
                                  !.cache_status = "hit",
                                  !.stooq_error = loc[p].stooq_error]]
    /\ pc' = [pc EXCEPT ![p] = "idle"]
    /\ UNCHANGED <<response, frame, batch, clock, cache, jit, loc, stooqInv, alphaInv, recLog, ncalls, nticks>>

\* lines 236-246
ReturnStale(p) ==
    /\ pc[p] = "fallback"
    /\ loc[p].cached # NoEntry
    /\ usage' = RecordRequest(usage, TRUE)
    /\ res' = [res EXCEPT ![p] =
                 [NoResult EXCEPT !.status = "returned",
                                  !.data = ToDataframe(loc[p].cached.data),
                                  !.provider = loc[p].cached.provider,
                                  !.fetched_at = loc[p].cached.fetched_at,
                                  !.expires_at = loc[p].cached.expires_at,
                                  !.is_stale = TRUE,
                                  !.cache_status = "stale",
                                  !.stooq_error = loc[p].stooq_error]]
    /\ pc' = [pc EXCEPT ![p] = "idle"]
    /\ UNCHANGED <<response, frame, batch, clock, cache, jit, loc, stooqInv, alphaInv, recLog, ncalls, nticks>>

\* lines 249-258
ReturnNone(p) ==
    /\ pc[p] = "fallback"
    /\ loc[p].cached = NoEntry
    /\ usage' = RecordRequest(usage, FALSE)
    /\ res' = [res EXCEPT ![p] =
                 [NoResult EXCEPT !.status = "returned",
                                  !.is_stale = FALSE,
                                  !.cache_status = "miss",
                                  !.stooq_error = loc[p].stooq_error]]
    /\ pc' = [pc EXCEPT ![p] = "idle"]
    /\ UNCHANGED <<response, frame, batch, clock, cache, jit, loc, stooqInv, alphaInv, recLog, ncalls, nticks>>

\* time passes between two calls
Tick(d) ==
    /\ \A p \in Procs : pc[p] = "idle"
    /\ clock' = clock + d
    /\ nticks' = nticks + 1
    /\ UNCHANGED <<response, frame, batch, cache, usage, jit, pc, loc, res, stooqInv, alphaInv, recLog, ncalls>>

----------------------------------------------------------------------------
(* A single sequential caller *)

Caller == CHOOSE p \in Procs : \A q \in Procs : p <= q

Next ==
    \/ /\ ncalls < MaxCalls
       /\ \E symbol \in Symbols, mode \in Modes, shape \in Shapes,
             alpha_key \in AlphaKeys :
             Begin(Caller, symbol, mode, shape[1], shape[2], alpha_key)
    \/ ReturnHit(Caller)
    \/ EnterRefresh(Caller)
    \/ \E data \in StooqRowsets : FetchStooq(Caller, data, "none", NetDelay)
    \/ \E err \in StooqErrors : FetchStooq(Caller, NoData, err, NetDelay)
    \/ StooqRaises(Caller, NetDelay)
    \/ StooqSufficient(Caller)
    \/ StooqFailed(Caller)
    \/ SetEntryLoad(Caller)
    \/ SetEntrySave(Caller)
    \/ ReturnMiss(Caller)
    \/ EnterAlpha(Caller)
    \/ SkipAlpha(Caller)
    \/ WaitForAlphaSlot(Caller)
    \/ \E data \in AlphaRowsets : FetchAlpha(Caller, data, "none", NetDelay)
    \/ \E err \in AlphaErrors : FetchAlpha(Caller, NoData, err, NetDelay)
    \/ AlphaRaises(Caller, NetDelay)
    \/ RecordCallLoad(Caller)
    \/ RecordCallSave(Caller)
    \/ AlphaSucceeded(Caller)
    \/ AlphaFailed(Caller)
    \/ ReturnStale(Caller)
    \/ ReturnNone(Caller)
    \/ nticks < MaxTicks /\ Tick(LongStep)

Spec == Init /\ [][Next]_vars

----------------------------------------------------------------------------
(* The repeated request of test_repeat_refresh_uses_cache: one symbol, no    *)
(* forced refresh, a primary provider that answers with enough rows, and     *)
(* less time than an entry lives.                                            *)

GoodStooqRowsets == {r \in StooqRowsets : Len(r) >= MinRows}

NextRepeat ==
    \/ /\ ncalls < MaxRepeatCalls
       /\ \E chart_points \in {60, 91} :
             Begin(Caller, "AAPL", "daily", "1d", chart_points, "demo")
    \/ ReturnHit(Caller)
    \/ EnterRefresh(Caller)
    \/ \E data \in GoodStooqRowsets, d \in NetDelays : FetchStooq(Caller, data, "none", d)
    \/ StooqSufficient(Caller)
    \/ SetEntryLoad(Caller)
    \/ SetEntrySave(Caller)
    \/ ReturnMiss(Caller)
    \/ nticks < MaxRepeatTicks /\ Tick(ShortStep)

SpecRepeat == Init /\ [][NextRepeat]_vars

----------------------------------------------------------------------------
(* Fallback traffic during an outage: the primary provider is down, every    *)
(* call is a forced refresh of the same symbol with a key configured, and    *)
(* the budgeted provider answers with an error or fails to answer.           *)

NextBudget ==
    \/ /\ ncalls < MaxBudgetCalls
       /\ Begin(Caller, "AAPL", "force", "1d", 60, "demo")
    \/ EnterRefresh(Caller)
    \/ FetchStooq(Caller, NoData, "network", 0)
    \/ StooqFailed(Caller)
    \/ EnterAlpha(Caller)
    \/ SkipAlpha(Caller)
    \/ WaitForAlphaSlot(Caller)
    \/ \E err \in AlphaErrors : FetchAlpha(Caller, NoData, err, 0)
    \/ Len(alphaInv) - Len(recLog) < MaxRaises /\ AlphaRaises(Caller, 0)
    \/ RecordCallLoad(Caller)
    \/ RecordCallSave(Caller)
    \/ AlphaFailed(Caller)
    \/ ReturnNone(Caller)
    \/ nticks < MaxBudgetTicks /\ Tick(WindowStep)
    \/ nticks < MaxBudgetTicks /\ clock < Day /\ Tick(LongStep)

SpecBudget == Init /\ [][NextBudget]_vars

----------------------------------------------------------------------------
(* An outage after a good day: the primary provider is down, the budgeted    *)
(* provider answers with rows or with an error, and a day may pass.          *)

NextStale ==
    \/ /\ ncalls < MaxStaleCalls
       /\ \E mode \in Modes : Begin(Caller, "AAPL", mode, "1d", 60, "demo")
    \/ ReturnHit(Caller)
    \/ EnterRefresh(Caller)
    \/ \E err \in StooqErrors : FetchStooq(Caller, NoData, err, 0)
    \/ StooqFailed(Caller)
    \/ EnterAlpha(Caller)
    \/ SkipAlpha(Caller)
    \/ WaitForAlphaSlot(Caller)
    \/ FetchAlpha(Caller, Rows(3, 30), "none", 0)
    \/ \E err \in AlphaErrors : FetchAlpha(Caller, NoData, err, 0)
    \/ RecordCallLoad(Caller)
    \/ RecordCallSave(Caller)
    \/ AlphaSucceeded(Caller)
    \/ AlphaFailed(Caller)
    \/ SetEntryLoad(Caller)
    \/ SetEntrySave(Caller)
    \/ ReturnMiss(Caller)
    \/ ReturnStale(Caller)
    \/ ReturnNone(Caller)
    \/ nticks < MaxStaleTicks /\ Tick(LongStep)

SpecStale == Init /\ [][NextStale]_vars

----------------------------------------------------------------------------
(* Slow and fast answers: the primary provider fails at once or after a      *)
(* timeout, and the budgeted provider answers with an error.                 *)

NextDelay ==
    \/ /\ ncalls < MaxDelayCalls
       /\ Begin(Caller, "AAPL", "force", "1d", 60, "demo")
    \/ EnterRefresh(Caller)
    \/ \E d \in NetDelays : FetchStooq(Caller, NoData, "network", d)
    \/ StooqFailed(Caller)
    \/ EnterAlpha(Caller)
    \/ SkipAlpha(Caller)
    \/ WaitForAlphaSlot(Caller)
    \/ \E err \in AlphaErrors : FetchAlpha(Caller, NoData, err, 0)
    \/ RecordCallLoad(Caller)
    \/ RecordCallSave(Caller)
    \/ AlphaFailed(Caller)
    \/ ReturnNone(Caller)
    \/ nticks < MaxDelayTicks /\ Tick(ShortStep)

SpecDelay == Init /\ [][NextDelay]_vars

----------------------------------------------------------------------------
(* Expiry across interpreter restarts.  The server process is started anew  *)
(* (run.py; the debug reloader does so on every code change), and the new   *)
(* interpreter has its own seed for hash() of a str, so abs(hash(key)) % 31 *)
(* is any of the values a seed can give.  A call may also run over          *)
(* midnight.  The clock is local time of a zone with a fixed UTC offset.    *)

RestartJitterMaps == [Symbols -> {0, MaxJitterMinutes}]
MidnightStep == 12 * Hour - 10 * Second

\* a new interpreter process serves the calls from now on
Restart(m) ==
    /\ \A p \in Procs : pc[p] = "idle"
    /\ m # jit
    /\ jit' = m
    /\ UNCHANGED <<response, frame, batch, clock, cache, usage, pc, loc, res, stooqInv, alphaInv, recLog,
                   ncalls, nticks>>

NextExpiry ==
    \/ /\ ncalls < MaxExpiryCalls
       /\ \E symbol \in Symbols, mode \in Modes :
             Begin(Caller, symbol, mode, "1d", 60, "demo")
    \/ ReturnHit(Caller)
    \/ EnterRefresh(Caller)
    \/ \E data \in GoodStooqRowsets : FetchStooq(Caller, data, "none", NetDelay)
    \/ FetchStooq(Caller, NoData, "network", NetDelay)
    \/ StooqSufficient(Caller)
    \/ StooqFailed(Caller)
    \/ EnterAlpha(Caller)
    \/ WaitForAlphaSlot(Caller)
    \/ FetchAlpha(Caller, Rows(3, 30), "none", 0)
    \/ RecordCallLoad(Caller)
    \/ RecordCallSave(Caller)
    \/ AlphaSucceeded(Caller)
    \/ SetEntryLoad(Caller)
    \/ SetEntrySave(Caller)
    \/ ReturnMiss(Caller)
    \/ \E m \in RestartJitterMaps : Restart(m)
    \/ nticks < MaxExpiryTicks /\ Tick(MidnightStep)

SpecExpiry == Init /\ [][NextExpiry]_vars

----------------------------------------------------------------------------
(* The ledger's operations on a ledger file that is missing or damaged.     *)
(* A file is the dict json.load gives, or what stands in its place:         *)
(*   AbsentFile       no file at USAGE_PATH                                 *)
(*   GarbageFile      text that is not JSON (json.JSONDecodeError)          *)
(*   UndecodableFile  bytes that are not UTF-8 (UnicodeDecodeError)         *)
(*   NonObjectFile    JSON that is not an object, such as [] or null        *)
(*   NoStatsFile      a JSON object without the key "stats", such as {}     *)
(* Missing "daily" and "minute" keys read as empty (.get and .setdefault    *)
(* with defaults), which is what the zero entries of a ledger stand for.    *)

NoStatsFile == [daily |-> EmptyUsage.daily, minute |-> EmptyUsage.minute]
DamagedFiles == {AbsentFile, GarbageFile, UndecodableFile, NonObjectFile, NoStatsFile}

LoadUsage(f) ==
    IF "absent" \in DOMAIN f \/ "text" \in DOMAIN f THEN EmptyUsage ELSE f

HasStats(u) == "stats" \in DOMAIN u

LedgerOps ==
    {"record_request_hit", "record_request_miss", "record_stooq_failure",
     "record_provider_call", "can_use_alpha", "wait_for_alpha_slot",
     "usage_snapshot", "alpha_calls_last_minute"}

\* the operation raises on file f: usage["stats"] (lines 68, 77) needs the
\* key, and .get / .setdefault / [] need a dict
OpRaises(op, f) ==
    \/ LoadRaises(f)
    \/ ~IsObject(LoadUsage(f))
    \/ /\ op \in {"record_request_hit", "record_request_miss", "record_stooq_failure"}
       /\ ~HasStats(LoadUsage(f))

\* the file the operation leaves, called at time t on file f
OpFile(op, f, t) ==
    LET u == LoadUsage(f)
    IN  CASE op = "record_request_hit" -> RecordRequest(u, TRUE)
          [] op = "record_request_miss" -> RecordRequest(u, FALSE)
          [] op = "record_stooq_failure" -> RecordStooqFailure(u)
          [] op = "record_provider_call" -> RecordProviderCall(u, "alpha", t)
          [] OTHER -> f

NoValue == [kind |-> "none"]

StatOf(u, k) == IF HasStats(u) THEN u.stats[k] ELSE 0

RECURSIVE Gcd(_, _)
Gcd(a, b) == IF b = 0 THEN a ELSE Gcd(b, a % b)

\* the quotient a / b, b > 0, as a fraction in lowest terms
Quotient(a, b) == [num |-> a \div Gcd(a, b), den |-> b \div Gcd(a, b)]

\* the share of misses instead of the share of hits
HitRateOfMisses(cache_hits, requests) ==
    IF requests # 0 THEN Quotient(requests - cache_hits, requests)
    ELSE [num |-> 0, den |-> 1]

\* usage.py:166
HitRate(cache_hits, requests) ==
    IF requests # 0 THEN Quotient(cache_hits, requests)
    ELSE [num |-> 0, den |-> 1]

\* what the operation returns, called at time t on file f
OpValue(op, f, t) ==
    LET u == LoadUsage(f)
    IN  CASE op = "can_use_alpha" -> [kind |-> "bool", allowed |-> CanUseAlpha(u, t)]
          [] op = "alpha_calls_last_minute" ->
                [kind |-> "int", count |-> AlphaCallsLastMinute(u, t)]
          [] op = "usage_snapshot" ->
                [kind |-> "snapshot",
                 usedToday |-> AlphaUsedToday(u, t),
                 usedLastMinute |-> AlphaCallsLastMinute(u, t),
                 requests |-> StatOf(u, "requests"),
                 cache_hits |-> StatOf(u, "cache_hits"),
                 hitRate |-> HitRate(StatOf(u, "cache_hits"), StatOf(u, "requests")),
                 failures |-> StatOf(u, "stooq_failures")]
          [] OTHER -> NoValue

\* one call of a ledger operation that does not sleep; ubuf is the dict the
\* operation holds when it returns, which is what it has saved if it saves
LedgerCall(p, op) ==
    /\ pc[p] = "idle"
    /\ loc' = [loc EXCEPT ![p] =
                 [InitLoc EXCEPT !.op = op, !.now = clock, !.pre_usage = usage,
                                 !.ubuf = IF OpRaises(op, usage) THEN InitLoc.ubuf
                                          ELSE OpFile(op, usage, clock)]]
    /\ IF OpRaises(op, usage)
       THEN /\ res' = [res EXCEPT ![p] = Raised]
            /\ UNCHANGED <<response, frame, batch, usage, recLog>>
       ELSE /\ res' = [res EXCEPT ![p] =
                         [NoResult EXCEPT !.status = "returned",
                                          !.value = OpValue(op, usage, clock)]]
            /\ usage' = OpFile(op, usage, clock)
            /\ recLog' = IF op = "record_provider_call"
                         THEN Append(recLog, clock) ELSE recLog
    /\ ncalls' = ncalls + 1
    /\ UNCHANGED <<response, frame, batch, clock, cache, jit, pc, stooqInv, alphaInv, nticks>>

\* usage.py:60-71
RecordRequestOp(p, cache_hit) ==
    LedgerCall(p, IF cache_hit THEN "record_request_hit" ELSE "record_request_miss")

\* usage.py:74-78
RecordStooqFailureOp(p) == LedgerCall(p, "record_stooq_failure")

\* usage.py:81-100
RecordProviderCallOp(p) == LedgerCall(p, "record_provider_call")

\* usage.py:117-127
CanUseAlphaOp(p) == LedgerCall(p, "can_use_alpha")

\* usage.py:110-114
AlphaCallsLastMinuteOp(p) == LedgerCall(p, "alpha_calls_last_minute")

\* usage.py:153-174
UsageSnapshotOp(p) == LedgerCall(p, "usage_snapshot")

\* usage.py:130-137
WaitForAlphaSlotOp(p) ==
    /\ pc[p] = "idle"
    /\ loc' = [loc EXCEPT ![p] =
                 [InitLoc EXCEPT !.op = "wait_for_alpha_slot", !.now = clock,
                                 !.pre_usage = usage]]
    /\ res' = [res EXCEPT ![p] = NoResult]
    /\ pc' = [pc EXCEPT ![p] = "slot"]
    /\ ncalls' = ncalls + 1
    /\ UNCHANGED <<response, frame, batch, clock, cache, usage, jit, stooqInv, alphaInv, recLog, nticks>>

\* one turn of the loop that sleeps 60 - (now - oldest) without the floor of
\* 0.1 seconds
SlotTurnSleepsWithoutFloor(p) ==
    /\ pc[p] = "slot"
    /\ IF OpRaises("wait_for_alpha_slot", usage)
       THEN /\ res' = [res EXCEPT ![p] = Raised]
            /\ pc' = [pc EXCEPT ![p] = "idle"]
            /\ UNCHANGED clock
       ELSE LET u == LoadUsage(usage)
                minute == InWindow(u.minute["alpha"], clock)
                returns == \/ AlphaUsedToday(u, clock) >= ALPHA_DAILY_BUDGET
                           \/ Len(minute) < ALPHA_PER_MINUTE_BUDGET
                oldest == CHOOSE x \in {minute[i] : i \in 1..Len(minute)} :
                             \A j \in 1..Len(minute) : x <= minute[j]
            IN  /\ clock' = IF returns THEN clock
                            ELSE clock + (WindowSeconds * Second - (clock - oldest))
                /\ pc' = [pc EXCEPT ![p] = IF returns THEN "idle" ELSE "slot"]
                /\ res' = [res EXCEPT ![p] =
                             IF returns THEN [NoResult EXCEPT !.status = "returned"]
                             ELSE NoResult]
    /\ UNCHANGED <<response, frame, batch, cache, usage, jit, loc, stooqInv, alphaInv, recLog, ncalls, nticks>>

\* usage.py:137-150: one turn of the loop
SlotTurn(p) ==
    /\ pc[p] = "slot"
    /\ IF OpRaises("wait_for_alpha_slot", usage)
       THEN /\ res' = [res EXCEPT ![p] = Raised]
            /\ pc' = [pc EXCEPT ![p] = "idle"]
            /\ UNCHANGED clock
       ELSE LET s == SlotSleep(LoadUsage(usage), clock)
            IN  /\ clock' = clock + s
                /\ pc' = [pc EXCEPT ![p] = IF s = 0 THEN "idle" ELSE "slot"]
                /\ res' = [res EXCEPT ![p] =
                             IF s = 0 THEN [NoResult EXCEPT !.status = "returned"]
                             ELSE NoResult]
    /\ UNCHANGED <<response, frame, batch, cache, usage, jit, loc, stooqInv, alphaInv, recLog, ncalls, nticks>>

\* the ledger file is removed or overwritten from outside the program
Damage(f) ==
    /\ \A p \in Procs : pc[p] = "idle"
    /\ f # usage
    /\ usage' = f
    /\ UNCHANGED <<response, frame, batch, clock, cache, jit, pc, loc, res, stooqInv, alphaInv, recLog,
                   ncalls, nticks>>

NextLedger ==
    \/ ncalls < MaxLedgerOps /\ \E cache_hit \in BOOLEAN : RecordRequestOp(Caller, cache_hit)
    \/ ncalls < MaxLedgerOps /\ RecordStooqFailureOp(Caller)
    \/ ncalls < MaxLedgerOps /\ RecordProviderCallOp(Caller)
    \/ ncalls < MaxLedgerOps /\ CanUseAlphaOp(Caller)
    \/ ncalls < MaxLedgerOps /\ UsageSnapshotOp(Caller)
    \/ ncalls < MaxLedgerOps /\ AlphaCallsLastMinuteOp(Caller)
    \/ ncalls < MaxLedgerOps /\ WaitForAlphaSlotOp(Caller)
    \/ SlotTurn(Caller)
    \/ \E f \in DamagedFiles : Damage(f)
    \/ nticks < MaxLedgerTicks /\ Tick(WindowStep)

SpecLedger == Init /\ [][NextLedger]_vars

----------------------------------------------------------------------------
(* The cache store on a file that is missing or damaged: get_entry and      *)
(* set_entry called on their own, and fetch_stock_history on top of them    *)
(* with a primary provider that answers with enough rows.                   *)

DamagedStores == {AbsentFile, GarbageFile, UndecodableFile, NonObjectFile}

StoreOps == {"get_entry", "set_entry"}

\* an entry as fetch_stock_history builds it
SampleEntry(key, t) ==
    [provider |-> "stooq", fetched_at |-> t,
     expires_at |-> ExpiryForProvider("stooq", key, t), data |-> Rows(1, 25)]

\* asset_cache.py:45-55
GetEntryOp(p, key) ==
    /\ pc[p] = "idle"
    /\ loc' = [loc EXCEPT ![p] =
                 [InitLoc EXCEPT !.op = "get_entry", !.symbol = key,
                                 !.now = clock, !.pre_cache = cache]]
    /\ res' = [res EXCEPT ![p] =
                 IF StoreFails(cache) THEN Raised
                 ELSE [NoResult EXCEPT !.status = "returned",
                                       !.value = [kind |-> "entry",
                                                  entry |-> GetEntry(cache, key)]]]
    /\ ncalls' = ncalls + 1
    /\ UNCHANGED <<response, frame, batch, clock, cache, usage, jit, pc, stooqInv, alphaInv, recLog, nticks>>

\* asset_cache.py:58-68; cbuf is the dict it has saved
SetEntryOp(p, key, entry) ==
    /\ pc[p] = "idle"
    /\ loc' = [loc EXCEPT ![p] =
                 [InitLoc EXCEPT !.op = "set_entry", !.symbol = key,
                                 !.entry = entry, !.now = clock,
                                 !.pre_cache = cache,
                                 !.cbuf = IF StoreFails(cache) THEN InitLoc.cbuf
                                          ELSE SetEntryIn(LoadCache(cache), key, entry)]]
    /\ IF StoreFails(cache)
       THEN /\ res' = [res EXCEPT ![p] = Raised]
            /\ UNCHANGED cache
       ELSE /\ res' = [res EXCEPT ![p] = [NoResult EXCEPT !.status = "returned"]]
            /\ cache' = SetEntryIn(LoadCache(cache), key, entry)
    /\ ncalls' = ncalls + 1
    /\ UNCHANGED <<response, frame, batch, clock, usage, jit, pc, stooqInv, alphaInv, recLog, nticks>>

\* asset_manager.py:151: get_entry raises and so does fetch_stock_history
GetEntryFails(p, symbol, mode, interval, chart_points, alpha_key) ==
    /\ pc[p] = "idle"
    /\ StoreFails(cache)
    /\ loc' = [loc EXCEPT ![p] =
                 [InitLoc EXCEPT !.symbol = symbol, !.mode = mode,
                                 !.interval = interval,
                                 !.chart_points = chart_points,
                                 !.alpha_key = alpha_key,
                                 !.now = clock,
                                 !.pre_usage = usage, !.pre_cache = cache,
                                 !.pre_stooq = stooqInv,
                                 !.pre_alpha = Len(alphaInv),
                                 !.pre_rec = Len(recLog)]]
    /\ res' = [res EXCEPT ![p] = Raised]
    /\ ncalls' = ncalls + 1
    /\ UNCHANGED <<response, frame, batch, clock, cache, usage, jit, pc, stooqInv, alphaInv, recLog, nticks>>

\* the cache file is removed or overwritten from outside the program
DamageStore(f) ==
    /\ \A p \in Procs : pc[p] = "idle"
    /\ f # cache
    /\ cache' = f
    /\ UNCHANGED <<response, frame, batch, clock, usage, jit, pc, loc, res, stooqInv, alphaInv, recLog,
                   ncalls, nticks>>

NextStore ==
    \/ ncalls < MaxStoreCalls /\ \E key \in Symbols : GetEntryOp(Caller, key)
    \/ ncalls < MaxStoreCalls
          /\ \E key \in Symbols : SetEntryOp(Caller, key, SampleEntry(key, clock))
    \/ ncalls < MaxStoreCalls
          /\ \E symbol \in Symbols : Begin(Caller, symbol, "daily", "1d", 60, "")
    \/ ncalls < MaxStoreCalls
          /\ \E symbol \in Symbols : GetEntryFails(Caller, symbol, "daily", "1d", 60, "")
    \/ ReturnHit(Caller)
    \/ EnterRefresh(Caller)
    \/ \E data \in GoodStooqRowsets : FetchStooq(Caller, data, "none", 0)
    \/ StooqSufficient(Caller)
    \/ SetEntryLoad(Caller)
    \/ SetEntrySave(Caller)
    \/ ReturnMiss(Caller)
    \/ \E f \in DamagedStores : DamageStore(f)

SpecStore == Init /\ [][NextStore]_vars

----------------------------------------------------------------------------
(* The gate of the budgeted provider: forced refreshes of one symbol, with  *)
(* or without a key, while the primary provider is down; the budgeted       *)
(* provider answers its first invocation with rows and the later ones with  *)
(* its quota note.                                                          *)

NextGate ==
    \/ /\ ncalls < MaxGateCalls
       /\ \E alpha_key \in AlphaKeys :
             Begin(Caller, "AAPL", "force", "1d", 60, alpha_key)
    \/ EnterRefresh(Caller)
    \/ FetchStooq(Caller, NoData, "network", 0)
    \/ StooqFailed(Caller)
    \/ EnterAlpha(Caller)
    \/ SkipAlpha(Caller)
    \/ WaitForAlphaSlot(Caller)
    \/ Len(alphaInv) = 0 /\ FetchAlpha(Caller, Rows(3, 30), "none", 0)
    \/ \E err \in AlphaErrors : FetchAlpha(Caller, NoData, err, 0)
    \/ RecordCallLoad(Caller)
    \/ RecordCallSave(Caller)
    \/ AlphaSucceeded(Caller)
    \/ AlphaFailed(Caller)
    \/ SetEntryLoad(Caller)
    \/ SetEntrySave(Caller)
    \/ ReturnMiss(Caller)
    \/ ReturnStale(Caller)
    \/ ReturnNone(Caller)
    \/ nticks < MaxGateTicks /\ Tick(WindowStep)

SpecGate == Init /\ [][NextGate]_vars

----------------------------------------------------------------------------
(* Properties *)

\* the call of caller p has ended, by a return or by an exception
Ended(p) == pc[p] = "idle" /\ res[p].status # "none"

Returned(p) == pc[p] = "idle" /\ res[p].status = "returned"

\* the entry the store held for the call's key when the call started
EntryAtStart(p) == loc[p].pre_cache[loc[p].symbol]

\* an unexpired entry was there for a call that does not force a refresh
FreshAtStart(p) ==
    /\ loc[p].mode # "force"
    /\ EntryAtStart(p) # NoEntry
    /\ EntryAtStart(p).expires_at > loc[p].now

StatsGrewBy(p, requests, hits, failures) ==
    /\ usage.stats.requests = loc[p].pre_usage.stats.requests + requests
    /\ usage.stats.cache_hits = loc[p].pre_usage.stats.cache_hits + hits
    /\ usage.stats.stooq_failures = loc[p].pre_usage.stats.stooq_failures + failures

\* C1: a call that does not force a refresh and finds an unexpired entry for
\* its key returns that entry's rows as a hit that is not stale, calls no
\* provider, and adds one request and one cache hit to the ledger.
C1_FreshEntryIsServed ==
    \A p \in Procs :
        (pc[p] # "idle" \/ res[p].status # "none") /\ FreshAtStart(p) =>
            /\ pc[p] \in {"idle", "check"}
            /\ stooqInv = loc[p].pre_stooq
            /\ Len(alphaInv) = loc[p].pre_alpha
            /\ Ended(p) =>
                  /\ res[p].status = "returned"
                  /\ res[p].data = EntryAtStart(p).data
                  /\ res[p].cache_status = "hit"
                  /\ res[p].is_stale = FALSE
                  /\ StatsGrewBy(p, 1, 1, 0)
                  /\ usage.daily = loc[p].pre_usage.daily
                  /\ usage.minute = loc[p].pre_usage.minute

C1_Witness ==
    \E p \in Procs :
        /\ Returned(p) /\ FreshAtStart(p)
        /\ res[p].cache_status = "hit"
        /\ res[p].data # NoData

\* the primary provider answered with rows that pass the sufficiency check
PrimaryGood(p) ==
    /\ Truthy(loc[p].sdata)
    /\ ~IsInsufficient(loc[p].sdata, loc[p].interval, loc[p].chart_points)

\* C3: when no unexpired entry is served and the primary provider's rows are
\* sufficient, the call makes one primary and no budgeted invocation, stores
\* an entry of provider stooq with those rows under its key only, counts a
\* request that is no cache hit, and returns the rows as a miss, not stale.
C3_PrimarySuccess ==
    \A p \in Procs :
        Ended(p) /\ ~FreshAtStart(p) /\ PrimaryGood(p) =>
            /\ res[p].status = "returned"
            /\ stooqInv = loc[p].pre_stooq + 1
            /\ Len(alphaInv) = loc[p].pre_alpha
            /\ cache = [loc[p].pre_cache EXCEPT ![loc[p].symbol] =
                          [provider |-> "stooq", fetched_at |-> loc[p].now,
                           expires_at |-> res[p].expires_at,
                           data |-> loc[p].sdata]]
            /\ res[p].data = loc[p].sdata
            /\ res[p].provider = "stooq"
            /\ res[p].cache_status = "miss"
            /\ res[p].is_stale = FALSE
            /\ StatsGrewBy(p, 1, 0, 0)

C3_Witness ==
    \E p \in Procs :
        /\ Returned(p) /\ ~FreshAtStart(p) /\ PrimaryGood(p)
        /\ EntryAtStart(p) # NoEntry
        /\ cache[loc[p].symbol].provider = "stooq"
        /\ cache[loc[p].symbol].data # EntryAtStart(p).data

\* the ledger as the calls recorded before this one left it has room, on the
\* day and in the minute of the call's start
BudgetAllows(p) ==
    LET before == 1..loc[p].pre_rec
    IN  /\ Cardinality({i \in before : TodayKey(recLog[i]) = TodayKey(loc[p].now)})
              < ALPHA_DAILY_BUDGET
        /\ Cardinality({i \in before : loc[p].now - recLog[i] <= WindowSeconds * Second})
              < ALPHA_PER_MINUTE_BUDGET

\* C4: when the primary provider fails with "network", a key is configured
\* and the budget allows a call, the budgeted provider is invoked; if it
\* answers with rows the call returns them with provider alpha, as a miss,
\* not stale, with stooq_error "network", and stores an entry of provider
\* alpha with those rows.
C4_FallbackToBudgeted ==
    \A p \in Procs :
        /\ Ended(p)
        /\ loc[p].serr = "network"
        /\ loc[p].alpha_key # ""
        /\ BudgetAllows(p)
        => /\ Len(alphaInv) = loc[p].pre_alpha + 1
           /\ Truthy(loc[p].adata) =>
                 /\ res[p].status = "returned"
                 /\ res[p].data = loc[p].adata
                 /\ res[p].provider = "alpha"
                 /\ res[p].cache_status = "miss"
                 /\ res[p].is_stale = FALSE
                 /\ res[p].stooq_error = "network"
                 /\ cache[loc[p].symbol].provider = "alpha"
                 /\ cache[loc[p].symbol].data = loc[p].adata
                 /\ cache[loc[p].symbol].expires_at = res[p].expires_at

C4_Witness ==
    \E p \in Procs :
        /\ Returned(p)
        /\ loc[p].serr = "network"
        /\ Truthy(loc[p].adata)
        /\ res[p].provider = "alpha"
        /\ loc[p].mode = "force"
        /\ EntryAtStart(p).provider = "stooq"

\* what stooq_error reports of a primary answer that was not good enough
PrimaryError(p) == IF loc[p].serr # "none" THEN loc[p].serr ELSE "insufficient"

\* C6: a call that finds no entry for its key and gets usable rows from
\* neither provider returns no data, with provider None, as a miss, not
\* stale, with the primary's error in stooq_error; it counts a request that
\* is no cache hit and leaves the store as it was, and the caller's next
\* call for the symbol invokes the primary provider again.
C6_TotalFailure ==
    \A p \in Procs :
        /\ (/\ Returned(p)
            /\ EntryAtStart(p) = NoEntry
            /\ ~PrimaryGood(p)
            /\ ~Truthy(loc[p].adata))
           => /\ res[p].data = NoData
              /\ res[p].provider = "none"
              /\ res[p].fetched_at = -1
              /\ res[p].expires_at = -1
              /\ res[p].cache_status = "miss"
              /\ res[p].is_stale = FALSE
              /\ res[p].stooq_error = PrimaryError(p)
              /\ usage.stats.requests = loc[p].pre_usage.stats.requests + 1
              /\ usage.stats.cache_hits = loc[p].pre_usage.stats.cache_hits
              /\ cache = loc[p].pre_cache
        /\ (loc[p].prev_none /\ pc[p] \notin {"check", "stooq"})
           => stooqInv = loc[p].pre_stooq + 1

C6_Witness ==
    \E p \in Procs :
        /\ Returned(p)
        /\ loc[p].prev_none
        /\ EntryAtStart(p) = NoEntry
        /\ res[p].provider = "none"
        /\ res[p].stooq_error = "symbol_not_found"
        /\ Len(alphaInv) = loc[p].pre_alpha + 1

\* the last k rows of a row list, k >= 0
LastRows(data, k) ==
    LET n == Len(data)
        m == IF k < n THEN k ELSE n
    IN  SubSeq(data, n - m + 1, n)

\* the call of p has judged its primary answer
Judged(p) ==
    /\ Truthy(loc[p].sdata)
    /\ pc[p] \notin {"check", "stooq", "stooq_ret"}
    /\ pc[p] = "idle" => Ended(p)

\* C10: rows of the primary provider are judged insufficient exactly when the
\* interval is of day granularity, chart_points <= 90, and the last
\* chart_points rows are fewer than 25; insufficient rows are not stored and
\* sufficient rows are stored without a budgeted invocation.
C10_SufficiencyRule ==
    \A p \in Procs :
        Judged(p) =>
            /\ (loc[p].stooq_error = "insufficient") <=>
                  (/\ loc[p].interval \in {"1d", "daily"}
                   /\ loc[p].chart_points <= MaxShortWindow
                   /\ Len(LastRows(loc[p].sdata, loc[p].chart_points)) < MinRows)
            /\ (loc[p].stooq_error # "insufficient") <=>
                  (/\ loc[p].entry.provider = "stooq"
                   /\ Len(alphaInv) = loc[p].pre_alpha)

\* the same rule for the requests of at least one display point
C10_RuleForPositivePoints ==
    \A p \in Procs :
        Judged(p) /\ loc[p].chart_points >= 1 =>
            /\ (loc[p].stooq_error = "insufficient") <=>
                  (/\ loc[p].interval \in {"1d", "daily"}
                   /\ loc[p].chart_points <= MaxShortWindow
                   /\ Len(LastRows(loc[p].sdata, loc[p].chart_points)) < MinRows)
            /\ (loc[p].stooq_error # "insufficient") <=>
                  (/\ loc[p].entry.provider = "stooq"
                   /\ Len(alphaInv) = loc[p].pre_alpha)

\* C2: from an empty store, a first call that does not force a refresh and
\* whose primary answer is sufficient, followed by further such calls for the
\* same symbol before the entry expires, makes one primary invocation in all,
\* and every further call returns a hit.
C2_RepeatedCallsHitCache ==
    /\ stooqInv <= 1
    /\ \A p \in Procs :
          Ended(p) =>
             /\ res[p].status = "returned"
             /\ stooqInv = 1
             /\ ncalls = 1 => res[p].cache_status = "miss"
             /\ (ncalls >= 2 /\ loc[p].now < EntryAtStart(p).expires_at) =>
                   /\ res[p].cache_status = "hit"
                   /\ res[p].data = cache[loc[p].symbol].data

C2_Witness ==
    \E p \in Procs :
        /\ Returned(p)
        /\ ncalls >= 3
        /\ nticks >= 1
        /\ res[p].cache_status = "hit"
        /\ stooqInv = 1

\* C5: with an expired entry for the symbol, a failing primary provider and a
\* budgeted provider that fails or is skipped, the call returns the rows of
\* that entry as stale and leaves the store unchanged.
C5_StaleDegradation ==
    \A p \in Procs :
        /\ Returned(p)
        /\ EntryAtStart(p) # NoEntry
        /\ EntryAtStart(p).expires_at <= loc[p].now
        /\ loc[p].serr # "none"
        /\ ~Truthy(loc[p].adata)
        => /\ res[p].data = EntryAtStart(p).data
           /\ res[p].is_stale = TRUE
           /\ res[p].cache_status = "stale"
           /\ res[p].provider = EntryAtStart(p).provider
           /\ cache = loc[p].pre_cache

\* the budgeted provider was skipped because the minute's budget was used up
C5_Witness ==
    \E p \in Procs :
        /\ Returned(p)
        /\ EntryAtStart(p) # NoEntry
        /\ EntryAtStart(p).expires_at <= loc[p].now
        /\ loc[p].serr # "none"
        /\ ~BudgetAllows(p)
        /\ Len(alphaInv) = loc[p].pre_alpha
        /\ res[p].is_stale = TRUE

\* the calls of record_provider_call("alpha", t) with t on day d
RecordedOn(d) == Cardinality({i \in DOMAIN recLog : TodayKey(recLog[i]) = d})

\* moments of the rest of the day of t
LaterToday(t) ==
    {u \in {t, t + 1, t + WindowStep, t + Hour, (TodayKey(t) + 1) * Day - 1} :
        TodayKey(u) = TodayKey(t)}

\* C7: once ALPHA_DAILY_BUDGET calls have been recorded for alpha with
\* timestamps of one day, can_use_alpha is false at every later moment of
\* that day, whatever the minute window holds.
C7_DailyBudgetCloses ==
    RecordedOn(TodayKey(clock)) = ALPHA_DAILY_BUDGET =>
        \A t \in LaterToday(clock) : ~CanUseAlpha(usage, t)

C7_Witness ==
    /\ RecordedOn(TodayKey(clock)) = ALPHA_DAILY_BUDGET
    /\ AlphaCallsLastMinute(usage, clock) = ALPHA_PER_MINUTE_BUDGET
    /\ \E t \in LaterToday(clock) : AlphaCallsLastMinute(usage, t) = 0

\* the invocations of fetch_alpha_daily made on day d
InvokedOn(d) == Cardinality({i \in DOMAIN alphaInv : TodayKey(alphaInv[i]) = d})

\* C8: under one sequential caller, no day sees more than ALPHA_DAILY_BUDGET
\* invocations of the budgeted provider, whatever the providers answer.
C8_DailyInvocationsBounded ==
    \A d \in Days : InvokedOn(d) <= ALPHA_DAILY_BUDGET

\* the invocations of fetch_alpha_daily in the 60 seconds that start at t
InvokedWithinWindowFrom(t) ==
    Cardinality({i \in DOMAIN alphaInv :
                    alphaInv[i] >= t /\ alphaInv[i] - t < WindowSeconds * Second})

\* C9: under one sequential caller, no interval of 60 seconds sees more than
\* ALPHA_PER_MINUTE_BUDGET invocations of the budgeted provider, whatever the
\* delay between a call's start and its budgeted invocation.
C9_MinuteInvocationsBounded ==
    \A i \in DOMAIN alphaInv :
        InvokedWithinWindowFrom(alphaInv[i]) <= ALPHA_PER_MINUTE_BUDGET

\* the hour of the day at which an entry of the provider expires
ExpiryHour(provider) ==
    IF provider = "alpha" THEN AlphaExpiryHour ELSE StooqExpiryHour

\* the jitter minutes in the expiry of an entry
JitterOf(e) == ((e.expires_at % Day) - ExpiryHour(e.provider) * Hour) \div Minute

\* the call of p has stored its entry and the clock still shows the moment
\* of the write
JustWrote(p) == pc[p] = "ret_miss" /\ loc[p].entry # NoEntry

\* C11: the jitter minutes of a key's expiry are the same whichever process
\* computes them: an entry written over one of the same key and of the same
\* day carries the same jitter minutes.
C11_JitterSameAcrossProcesses ==
    \A p \in Procs :
        /\ JustWrote(p)
        /\ loc[p].cached # NoEntry
        /\ TodayKey(loc[p].cached.fetched_at) = TodayKey(clock)
        => JitterOf(loc[p].entry) = JitterOf(loc[p].cached)

Forced(p) == loc[p].mode = "force"

\* C13: a call in mode force invokes the primary provider exactly once, also
\* when an unexpired entry exists; sufficient primary rows replace the entry;
\* and no such call returns a hit.
C13_ForceAlwaysRefreshes ==
    \A p \in Procs :
        /\ (pc[p] # "idle" /\ Forced(p)) => stooqInv - loc[p].pre_stooq <= 1
        /\ (Ended(p) /\ Forced(p)) =>
              /\ stooqInv = loc[p].pre_stooq + 1
              /\ res[p].cache_status # "hit"
              /\ (Returned(p) /\ PrimaryGood(p)) =>
                    cache[loc[p].symbol] =
                       [provider |-> "stooq", fetched_at |-> loc[p].now,
                        expires_at |-> res[p].expires_at, data |-> loc[p].sdata]

\* a forced call found an unexpired entry and replaced it
C13_Witness ==
    \E p \in Procs :
        /\ Returned(p) /\ Forced(p)
        /\ EntryAtStart(p) # NoEntry
        /\ EntryAtStart(p).expires_at > loc[p].now
        /\ PrimaryGood(p)
        /\ cache[loc[p].symbol] # EntryAtStart(p)
        /\ res[p].cache_status = "miss"

\* the call of p met a transport failure of the primary provider: an HTTP
\* error status, or an exception of the HTTP request
PrimaryTransportFailure(p) ==
    \/ loc[p].serr = "network"
    \/ res[p].status = "raised" /\ stooqInv = loc[p].pre_stooq + 1
                                /\ Len(alphaInv) = loc[p].pre_alpha

\* C14: a transport failure while talking to a provider is not raised out of
\* fetch_stock_history: the call returns, a primary transport failure is
\* counted as a primary failure, and the result is that of the budgeted
\* fallback, of the stale fallback or of the total failure.
C14_TransportFailureNotRaised ==
    \A p \in Procs :
        Ended(p) =>
            /\ res[p].status = "returned"
            /\ PrimaryTransportFailure(p) =>
                  /\ usage.stats.stooq_failures
                        = loc[p].pre_usage.stats.stooq_failures + 1
                  /\ res[p].stooq_error = "network"
                  /\ \/ res[p].cache_status = "miss" /\ res[p].provider = "alpha"
                     \/ res[p].cache_status = "stale"
                     \/ res[p].cache_status = "miss" /\ res[p].provider = "none"

\* a call of a ledger operation by p has ended
LedgerOpEnded(p) ==
    /\ pc[p] = "idle"
    /\ loc[p].op \in LedgerOps
    /\ res[p].status # "none"

\* the file holds a ledger with its three parts
WellFormed(f) == DOMAIN f = {"daily", "minute", "stats"}

\* C15: on a ledger file that is absent or damaged (not parseable, or
\* parseable without the daily/minute/stats structure) every ledger operation
\* returns without raising and acts as on a zeroed ledger: it returns what it
\* would return, and writes what it would write, on the zeroed ledger.
C15_DamagedLedgerActsAsZeroed ==
    \A p \in Procs :
        LedgerOpEnded(p) /\ ~WellFormed(loc[p].pre_usage) =>
            /\ res[p].status = "returned"
            /\ res[p].value = OpValue(loc[p].op, EmptyUsage, loc[p].now)
            /\ loc[p].op \in {"record_request_hit", "record_request_miss",
                              "record_stooq_failure", "record_provider_call"} =>
                  loc[p].ubuf = OpFile(loc[p].op, EmptyUsage, loc[p].now)

\* the same for the two kinds of file that _load_usage itself replaces by a
\* zeroed ledger: no file, and text that is not JSON
C15_MissingOrGarbageActsAsZeroed ==
    \A p \in Procs :
        LedgerOpEnded(p) /\ loc[p].pre_usage \in {AbsentFile, GarbageFile} =>
            /\ res[p].status = "returned"
            /\ res[p].value = OpValue(loc[p].op, EmptyUsage, loc[p].now)
            /\ loc[p].op \in {"record_request_hit", "record_request_miss",
                              "record_stooq_failure", "record_provider_call"} =>
                  loc[p].ubuf = OpFile(loc[p].op, EmptyUsage, loc[p].now)

\* the file holds a map from keys to entries
StoreIsMap(f) == DOMAIN f = Symbols

\* a call of a store operation by p has ended
StoreOpEnded(p) ==
    /\ pc[p] = "idle"
    /\ loc[p].op \in StoreOps
    /\ res[p].status # "none"

\* a call of fetch_stock_history by p has ended
FetchEnded(p) ==
    /\ pc[p] = "idle"
    /\ loc[p].op = "fetch_stock_history"
    /\ res[p].status # "none"

\* C16: on a cache file that is absent or corrupt, get_entry returns None for
\* every key, set_entry succeeds and leaves a store with exactly its key,
\* neither raises, and fetch_stock_history goes on as on an empty cache.
C16_DamagedStoreActsAsEmpty ==
    \A p \in Procs :
        /\ StoreOpEnded(p) /\ ~StoreIsMap(loc[p].pre_cache) =>
              /\ res[p].status = "returned"
              /\ loc[p].op = "get_entry" => res[p].value.entry = NoEntry
              /\ loc[p].op = "set_entry" =>
                    loc[p].cbuf = [EmptyCache EXCEPT ![loc[p].symbol] = loc[p].entry]
        /\ FetchEnded(p) /\ ~StoreIsMap(loc[p].pre_cache) =>
              /\ res[p].status = "returned"
              /\ loc[p].cached = NoEntry
              /\ stooqInv = loc[p].pre_stooq + 1
              /\ res[p].cache_status = "miss"

\* the same for the two kinds of file that _load_cache itself replaces by an
\* empty map: no file, and text that is not JSON
C16_MissingOrGarbageActsAsEmpty ==
    \A p \in Procs :
        /\ StoreOpEnded(p) /\ loc[p].pre_cache \in {AbsentFile, GarbageFile} =>
              /\ res[p].status = "returned"
              /\ loc[p].op = "get_entry" => res[p].value.entry = NoEntry
              /\ loc[p].op = "set_entry" =>
                    loc[p].cbuf = [EmptyCache EXCEPT ![loc[p].symbol] = loc[p].entry]
        /\ FetchEnded(p) /\ loc[p].pre_cache \in {AbsentFile, GarbageFile} =>
              /\ res[p].status = "returned"
              /\ loc[p].cached = NoEntry
              /\ stooqInv = loc[p].pre_stooq + 1
              /\ res[p].cache_status = "miss"

\* p is in a call of fetch_stock_history, or has ended one
InOrAfterFetch(p) ==
    /\ loc[p].op = "fetch_stock_history"
    /\ pc[p] # "idle" \/ res[p].status # "none"

\* p is between the gate of the budgeted provider and the end of its tier
InBudgetedTier(p) == pc[p] \in {"wait", "alpha", "rec_load", "rec_save", "alpha_ret"}

C18_OneOutcomePerCall ==
    \A p \in Procs :
        FetchEnded(p) /\ res[p].status = "returned" =>
            /\ res[p].cache_status \in {"hit", "stale", "miss"}
            /\ usage.stats.requests = loc[p].pre_usage.stats.requests + 1
            /\ usage.stats.cache_hits =
                  loc[p].pre_usage.stats.cache_hits
                     + (IF res[p].cache_status \in {"hit", "stale"} THEN 1 ELSE 0)

\* a stale answer was counted as a request and as a cache hit, after the
\* ledger had already counted a request that was no hit
C18_Witness ==
    \E p \in Procs :
        /\ FetchEnded(p) /\ res[p].status = "returned"
        /\ res[p].cache_status = "stale"
        /\ usage.stats.requests = 2
        /\ usage.stats.cache_hits = 1

-----------------------------------------------------------------------------
(* The dashboard's batch: _safe_analyze_assets walks the watchlist and       *)
(* fetches and analyses one symbol after the other                            *)

Watchlists == {<<"AAPL", "MSFT">>, <<"MSFT">>}

\* the f-strings of lines 60, 79, 107 and 113: the symbol and the text around it
ErrorString(symbol, text) == [symbol |-> symbol, text |-> text]

\* one element of results: the analysed symbol and the label's origin
ResultOf(symbol, kind) == [symbol |-> symbol, kind |-> kind]

BatchRunning == batch.stage \in {"fetch", "analyze"}

BatchSymbol == batch.watchlist[batch.i]

\* the loop variable moves to the next symbol; past the last one the stock
\* loop is over
NextSymbol(b, outcome) ==
    [b EXCEPT !.i = b.i + 1,
              !.stage = IF b.i + 1 > Len(b.watchlist) THEN "commodities" ELSE "fetch",
              !.outcomes = Append(b.outcomes,
                                  [symbol |-> b.watchlist[b.i], outcome |-> outcome])]

\* lines 55-65: empty results and errors, the key check, load_watchlist
SafeAnalyzeAssets(p, watchlist, alpha_key) ==
    /\ \A q \in Procs : pc[q] = "idle"
    /\ ~BatchRunning /\ batch.stage # "commodities"
    /\ batch' = [watchlist |-> watchlist, i |-> 1, stage |-> "fetch",
                 results |-> << >>,
                 errors |-> IF alpha_key = ""
                            THEN <<ErrorString("", "ALPHA_VANTAGE_KEY not loaded")>>
                            ELSE << >>,
                 outcomes |-> << >>, n |-> batch.n + 1, alpha_key |-> alpha_key]
    /\ res' = [res EXCEPT ![p] = NoResult]
    /\ UNCHANGED <<response, frame, clock, cache, usage, jit, pc, loc, stooqInv, alphaInv, recLog,
                   ncalls, nticks>>

\* lines 68-76: the call of fetch_stock_history for the symbol at hand
BatchFetch(p, mode) ==
    /\ batch.stage = "fetch"
    /\ res[p].status = "none"
    /\ Begin(p, BatchSymbol, mode, "1d", 60, batch.alpha_key)

\* lines 78-108 with the handler leaving the loop instead of continuing
BatchCollectAbortsOnRaise(p) ==
    /\ batch.stage = "fetch"
    /\ pc[p] = "idle"
    /\ res[p].status # "none"
    /\ batch' =
         IF res[p].status = "raised"
         THEN [batch EXCEPT !.stage = "commodities",
                            !.outcomes = Append(@, [symbol |-> BatchSymbol,
                                                    outcome |-> "raised"]),
                            !.errors = Append(@, ErrorString(BatchSymbol,
                                        "missing history (cache fetch failed)"))]
         ELSE IF res[p].data = NoData
         THEN [NextSymbol(batch, "none") EXCEPT
                 !.errors = Append(@, ErrorString(BatchSymbol, "missing history")),
                 !.results = Append(@, ResultOf(BatchSymbol, "neutral"))]
         ELSE [batch EXCEPT !.stage = "analyze"]
    /\ res' = IF res[p].status = "returned" /\ res[p].data # NoData
              THEN res ELSE [res EXCEPT ![p] = NoResult]
    /\ UNCHANGED <<response, frame, clock, cache, usage, jit, pc, loc, stooqInv, alphaInv, recLog,
                   ncalls, nticks>>

\* lines 78-108: what the loop does with the outcome of the fetch: an
\* exception or None leave an error string and the loop continues
BatchCollect(p) ==
    /\ batch.stage = "fetch"
    /\ pc[p] = "idle"
    /\ res[p].status # "none"
    /\ batch' =
         IF res[p].status = "raised"
         THEN [NextSymbol(batch, "raised") EXCEPT
                 !.errors = Append(@, ErrorString(BatchSymbol,
                                        "missing history (cache fetch failed)"))]
         ELSE IF res[p].data = NoData
         THEN [NextSymbol(batch, "none") EXCEPT
                 !.errors = Append(@, ErrorString(BatchSymbol, "missing history")),
                 !.results = Append(@, ResultOf(BatchSymbol, "neutral"))]
         ELSE [batch EXCEPT !.stage = "analyze"]
    /\ res' = IF res[p].status = "returned" /\ res[p].data # NoData
              THEN res ELSE [res EXCEPT ![p] = NoResult]
    /\ UNCHANGED <<response, frame, clock, cache, usage, jit, pc, loc, stooqInv, alphaInv, recLog,
                   ncalls, nticks>>

\* lines 104-113: resample_history and analyze_asset on the frame; either may
\* raise, and each handler leaves its own error string
BatchAnalyze(p, outcome) ==
    /\ batch.stage = "analyze"
    /\ batch' =
         CASE outcome = "analysed" ->
                [NextSymbol(batch, outcome) EXCEPT
                   !.results = Append(@, ResultOf(BatchSymbol, "analysis"))]
           [] outcome = "resample raised" ->
                [NextSymbol(batch, outcome) EXCEPT
                   !.errors = Append(@, ErrorString(BatchSymbol,
                                        "missing history (cache fetch failed)"))]
           [] outcome = "analysis raised" ->
                [NextSymbol(batch, outcome) EXCEPT
                   !.errors = Append(@, ErrorString(BatchSymbol, "insufficient data"))]
    /\ res' = [res EXCEPT ![p] = NoResult]
    /\ UNCHANGED <<response, frame, clock, cache, usage, jit, pc, loc, stooqInv, alphaInv, recLog,
                   ncalls, nticks>>

AnalyzeOutcomes == {"analysed", "resample raised", "analysis raised"}

\* lines 116-134: the commodities add their own results and errors behind
\* those of the stocks, then both lists are returned
BatchReturn(commodity_ok) ==
    /\ batch.stage = "commodities"
    /\ batch' = [batch EXCEPT
                   !.stage = "returned",
                   !.results = IF commodity_ok
                               THEN Append(@, ResultOf("Gold", "analysis")) ELSE @,
                   !.errors = IF commodity_ok
                              THEN @ ELSE Append(@, ErrorString("Gold", "missing data"))]
    /\ UNCHANGED <<response, frame, clock, cache, usage, jit, pc, loc, res, stooqInv, alphaInv,
                   recLog, ncalls, nticks>>

NextBatch ==
    \/ /\ batch.n < MaxBatches
       /\ \E w \in Watchlists, k \in AlphaKeys : SafeAnalyzeAssets(Caller, w, k)
    \/ \E mode \in Modes : BatchFetch(Caller, mode)
    \/ BatchCollect(Caller)
    \/ \E o \in AnalyzeOutcomes : BatchAnalyze(Caller, o)
    \/ \E ok \in BOOLEAN : BatchReturn(ok)
    \/ ReturnHit(Caller)
    \/ EnterRefresh(Caller)
    \/ FetchStooq(Caller, Rows(1, 25), "none", 0)
    \/ FetchStooq(Caller, NoData, "network", 0)
    \/ StooqRaises(Caller, 0)
    \/ StooqSufficient(Caller)
    \/ StooqFailed(Caller)
    \/ EnterAlpha(Caller)
    \/ SkipAlpha(Caller)
    \/ WaitForAlphaSlot(Caller)
    \/ FetchAlpha(Caller, NoData, "Note", 0)
    \/ RecordCallLoad(Caller)
    \/ RecordCallSave(Caller)
    \/ AlphaFailed(Caller)
    \/ SetEntryLoad(Caller)
    \/ SetEntrySave(Caller)
    \/ ReturnMiss(Caller)
    \/ ReturnStale(Caller)
    \/ ReturnNone(Caller)
    \/ nticks < MaxBatchTicks /\ Tick(LongStep)

SpecBatch == Init /\ [][NextBatch]_vars

\* the stock loop of the batch is over and its lists are returned
BatchReturned == batch.stage = "returned"

HasError(symbol) == \E k \in 1..Len(batch.errors) : batch.errors[k].symbol = symbol

HasResult(symbol, kind) ==
    \E k \in 1..Len(batch.results) : batch.results[k] = ResultOf(symbol, kind)

C19_WitnessNone ==
    /\ BatchReturned
    /\ Len(batch.watchlist) = 2
    /\ batch.outcomes[1].outcome = "none"
    /\ batch.outcomes[2].outcome = "analysed"

-----------------------------------------------------------------------------
(* resample_history: daily bars put into weekly or monthly buckets.          *)
(* Dates are days counted from Monday 2024-01-22, so that day 4 is a Friday, *)
(* day 9 is 2024-01-31, day 38 is 2024-02-29 and day 69 is 2024-03-31        *)

OHLC == {"open", "high", "low"}
AllColumns == {"open", "high", "low", "close", "volume"}
ColumnSets == {AllColumns, {"close", "volume"}, {"open", "close"}}
Intervals == {"1d", "daily", "1w", "weekly", "1m", "1h"}

\* the missing value of an aggregate over no bars; no price is negative
NaN == 0 - 1

\* two daily bars that differ in every column
BarShapes ==
    <<[open |-> 2, high |-> 5, low |-> 1, close |-> 3, volume |-> 10],
      [open |-> 4, high |-> 6, low |-> 3, close |-> 5, volume |-> 7]>>

Bar(t, shape) == [c \in AllColumns \cup {"t"} |-> IF c = "t" THEN t ELSE shape[c]]

IsTradingDay(t) == t % 7 < 5

\* the n-th date of a run of consecutive days from t, weekends left out or not
RECURSIVE RunDate(_, _, _)
RunDate(t, n, trading) ==
    IF trading /\ ~IsTradingDay(t) THEN RunDate(t + 1, n, trading)
    ELSE IF n = 1 THEN t
    ELSE RunDate(t + 1, n - 1, trading)

\* ten consecutive daily bars from a start date
RunRows(start, trading) ==
    [k \in 1..10 |-> Bar(RunDate(start, k, trading), BarShapes[1 + ((start + k) % 2)])]

\* a frame that holds only some of the columns
Project(rows, columns) ==
    [k \in 1..Len(rows) |-> [c \in columns \cup {"t"} |-> rows[k][c]]]

\* the Friday that ends the week of day t (rule W-FRI)
WeekEnd(t) == t + ((4 + 7 - (t % 7)) % 7)

\* the last day of the month of day t (rule M)
MonthEnd(t) == IF t <= 9 THEN 9 ELSE IF t <= 38 THEN 38 ELSE 69

BucketEnd(rule, t) == IF rule = "W-FRI" THEN WeekEnd(t) ELSE MonthEnd(t)

\* the labels of the bins the resampler lays out, from the first bar's to the
\* last bar's, whether a bar falls into them or not
RECURSIVE Bins(_, _, _)
Bins(rule, from, to) ==
    IF from > to THEN << >>
    ELSE <<from>> \o Bins(rule, BucketEnd(rule, from + 1), to)

RECURSIVE SeqMax(_, _)
SeqMax(rows, c) ==
    IF Len(rows) = 1 THEN rows[1][c]
    ELSE LET m == SeqMax(Tail(rows), c)
         IN IF rows[1][c] >= m THEN rows[1][c] ELSE m

RECURSIVE SeqMin(_, _)
SeqMin(rows, c) ==
    IF Len(rows) = 1 THEN rows[1][c]
    ELSE LET m == SeqMin(Tail(rows), c)
         IN IF rows[1][c] <= m THEN rows[1][c] ELSE m

RECURSIVE SeqSum(_, _)
SeqSum(rows, c) ==
    IF rows = << >> THEN 0 ELSE rows[1][c] + SeqSum(Tail(rows), c)

\* the agg dict with the open taken from the bucket's last bar
AggregateOpenOfLast(members, label) ==
    IF members = << >>
    THEN [t |-> label, open |-> NaN, high |-> NaN, low |-> NaN, close |-> NaN,
          volume |-> 0]
    ELSE [t |-> label,
          open |-> members[Len(members)].open,
          high |-> SeqMax(members, "high"),
          low |-> SeqMin(members, "low"),
          close |-> members[Len(members)].close,
          volume |-> SeqSum(members, "volume")]

\* lines 520-526: first, max, min, last, sum over the bars of one bin; a bin
\* without bars has no prices and the volume 0
Aggregate(members, label) ==
    IF members = << >>
    THEN [t |-> label, open |-> NaN, high |-> NaN, low |-> NaN, close |-> NaN,
          volume |-> 0]
    ELSE [t |-> label,
          open |-> members[1].open,
          high |-> SeqMax(members, "high"),
          low |-> SeqMin(members, "low"),
          close |-> members[Len(members)].close,
          volume |-> SeqSum(members, "volume")]

\* lines 509-513: open, high and low are all taken from close unless all three
\* are columns of the frame
BackfillOHLC(df) ==
    IF OHLC \subseteq df.columns THEN df
    ELSE [columns |-> df.columns \cup OHLC,
          rows |-> [k \in 1..Len(df.rows) |->
                      [c \in DOMAIN df.rows[k] \cup OHLC |->
                         IF c \in OHLC THEN df.rows[k].close ELSE df.rows[k][c]]]]

\* lines 515-517: a missing volume column is 0
BackfillVolume(df) ==
    IF "volume" \in df.columns THEN df
    ELSE [columns |-> df.columns \cup {"volume"},
          rows |-> [k \in 1..Len(df.rows) |->
                      [c \in DOMAIN df.rows[k] \cup {"volume"} |->
                         IF c = "volume" THEN 0 ELSE df.rows[k][c]]]]

\* line 528: resample(rule).agg(agg)
ResampleAgg(df, rule) ==
    LET n == Len(df.rows)
        bins == Bins(rule, BucketEnd(rule, df.rows[1].t), BucketEnd(rule, df.rows[n].t))
        Members(label) ==
            SelectSeq(df.rows, LAMBDA b : BucketEnd(rule, b.t) = label)
    IN [columns |-> AllColumns,
        rows |-> [k \in 1..Len(bins) |-> Aggregate(Members(bins[k]), bins[k])]]

\* line 528: dropna(subset=["close"])
DropNaClose(df) ==
    [df EXCEPT !.rows = SelectSeq(@, LAMBDA r : r.close # NaN)]

\* lines 498-529
ResampleRule(interval) ==
    CASE interval \in {"1w", "weekly"} -> "W-FRI"
      [] interval \in {"1m", "monthly"} -> "M"
      [] OTHER -> "none"

Resample(df, interval) ==
    IF interval \in {"1d", "daily"} \/ ResampleRule(interval) = "none" THEN df
    ELSE DropNaClose(ResampleAgg(BackfillVolume(BackfillOHLC(df)),
                                 ResampleRule(interval)))

\* _to_dataframe: one more bar of the fetched data, dates ascending as
\* sort_index leaves them
ToDataframeRow(t, shape) ==
    /\ frame.stage \in {"none", "rows"}
    /\ frame.stage = "rows" => frame.df.columns = AllColumns
    /\ Len(frame.df.rows) < MaxBars
    /\ frame.df.rows # << >> => t > frame.df.rows[Len(frame.df.rows)].t
    /\ frame' = [frame EXCEPT !.df = [columns |-> AllColumns,
                                      rows |-> Append(frame.df.rows, Bar(t, shape))],
                              !.stage = "rows"]
    /\ UNCHANGED <<response, clock, cache, usage, jit, pc, loc, res, stooqInv, alphaInv,
                   recLog, ncalls, nticks, batch>>

\* _to_dataframe: the fetched data are ten consecutive daily bars
ToDataframeRun(start, trading) ==
    /\ frame.stage = "none"
    /\ frame' = [frame EXCEPT !.df = [columns |-> AllColumns,
                                      rows |-> RunRows(start, trading)],
                              !.stage = "rows"]
    /\ UNCHANGED <<response, clock, cache, usage, jit, pc, loc, res, stooqInv, alphaInv,
                   recLog, ncalls, nticks, batch>>

\* the rows of the data held only some of the keys o, h, l, c, v
ToDataframeColumns(columns) ==
    /\ frame.stage = "rows"
    /\ frame.df.columns = AllColumns
    /\ columns # AllColumns
    /\ Len(frame.df.rows) <= 2
    /\ frame' = [frame EXCEPT !.df = [columns |-> columns,
                                      rows |-> Project(frame.df.rows, columns)]]
    /\ UNCHANGED <<response, clock, cache, usage, jit, pc, loc, res, stooqInv, alphaInv,
                   recLog, ncalls, nticks, batch>>

\* dashboard.py lines 104 and 300: the call with the fetched frame
ResampleCall(interval) ==
    /\ frame.stage = "rows"
    /\ frame' = [frame EXCEPT !.interval = interval, !.stage = "called"]
    /\ UNCHANGED <<response, clock, cache, usage, jit, pc, loc, res, stooqInv, alphaInv,
                   recLog, ncalls, nticks, batch>>

\* lines 471-529
ResampleHistory ==
    /\ frame.stage = "called"
    /\ frame' = [frame EXCEPT !.out = Resample(frame.df, frame.interval),
                              !.stage = "returned"]
    /\ UNCHANGED <<response, clock, cache, usage, jit, pc, loc, res, stooqInv, alphaInv,
                   recLog, ncalls, nticks, batch>>

NextResample ==
    \/ \E t \in 0..MaxDate, k \in 1..Len(BarShapes) : ToDataframeRow(t, BarShapes[k])
    \/ \E start \in 0..MaxRunStart, trading \in BOOLEAN : ToDataframeRun(start, trading)
    \/ \E columns \in ColumnSets : ToDataframeColumns(columns)
    \/ \E interval \in Intervals : ResampleCall(interval)
    \/ ResampleHistory

SpecResample == Init /\ [][NextResample]_vars

FrameReturned == frame.stage = "returned"

Weekly == frame.interval \in {"1w", "weekly"}

\* the positions of the input bars whose week ends on the given Friday
BarsOfWeek(label) ==
    {k \in 1..Len(frame.df.rows) : WeekEnd(frame.df.rows[k].t) = label}

WeeksWithBars == {WeekEnd(frame.df.rows[k].t) : k \in 1..Len(frame.df.rows)}

RECURSIVE VolumeOf(_)
VolumeOf(ks) ==
    IF ks = {} THEN 0
    ELSE LET k == CHOOSE x \in ks : TRUE
         IN frame.df.rows[k].volume + VolumeOf(ks \ {k})

\* each bar is dated the day, or the trading day, after the bar before it
ConsecutiveDays(rows) ==
    \/ \A k \in 1..(Len(rows) - 1) : rows[k + 1].t = rows[k].t + 1
    \/ \A k \in 1..(Len(rows) - 1) :
         /\ IsTradingDay(rows[k].t)
         /\ rows[k + 1].t = RunDate(rows[k].t + 1, 1, TRUE)

\* C20: resample_history with a day granularity returns its input unchanged;
\* with week granularity the output has one bucket for every week ending
\* Friday that holds a bar and none for a week without bars, each bucket has
\* the open of its first bar, the highest high, the lowest low, the close of
\* its last bar and the sum of the volumes, and 10 consecutive daily bars
\* that span two weeks give exactly 2 buckets
C20_ResampleHistory ==
    FrameReturned =>
      /\ frame.interval \in {"1d", "daily"} => frame.out = frame.df
      /\ Weekly =>
           LET rows == frame.df.rows
               out == frame.out.rows
           IN /\ {out[j].t : j \in 1..Len(out)} = WeeksWithBars
              /\ \A i, j \in 1..Len(out) : i < j => out[i].t < out[j].t
              /\ frame.df.columns = AllColumns =>
                   \A j \in 1..Len(out) :
                     LET ks == BarsOfWeek(out[j].t)
                         first == CHOOSE k \in ks : \A x \in ks : k <= x
                         last == CHOOSE k \in ks : \A x \in ks : k >= x
                     IN /\ out[j].open = rows[first].open
                        /\ \A k \in ks : out[j].high >= rows[k].high
                        /\ \E k \in ks : out[j].high = rows[k].high
                        /\ \A k \in ks : out[j].low <= rows[k].low
                        /\ \E k \in ks : out[j].low = rows[k].low
                        /\ out[j].close = rows[last].close
                        /\ out[j].volume = VolumeOf(ks)
              /\ (Len(rows) = 10 /\ ConsecutiveDays(rows)
                    /\ Cardinality(WeeksWithBars) = 2) => Len(out) = 2

C20_Witness ==
    /\ FrameReturned
    /\ Weekly
    /\ Len(frame.df.rows) = 10
    /\ ConsecutiveDays(frame.df.rows)
    /\ Cardinality(WeeksWithBars) = 2
    /\ Len(frame.out.rows) = 2
    /\ frame.out.rows[1].open # frame.out.rows[1].close

\* bars in two weeks with a week without bars between them
C20_WitnessEmptyWeek ==
    /\ FrameReturned
    /\ Weekly
    /\ Len(frame.out.rows) = 2
    /\ frame.out.rows[2].t = frame.out.rows[1].t + 14

-----------------------------------------------------------------------------
(* fetch_stooq_daily: the primary adapter turns one HTTP response into rows  *)
(* or an error string                                                        *)

CsvHeader == "Date,Open,High,Low,Close,Volume"
OtherHeader == "<html>"
Heads == {"", " ", "No data", "NO DATA", CsvHeader, OtherHeader}
PriceColumns == {"Open", "High", "Low", "Close", "Volume"}
CsvDates == {"", "2024-01-02", "2024-01-03"}

\* one line of the body under the header, cell by cell
CsvRow(date, cells) ==
    [c \in PriceColumns \cup {"Date"} |-> IF c = "Date" THEN date ELSE cells[c]]

CsvCells ==
    {[c \in PriceColumns |-> "7"],
     [c \in PriceColumns |-> "9"],
     [c \in PriceColumns |-> IF c = "Open" THEN "" ELSE "7"],
     [c \in PriceColumns |-> IF c = "Close" THEN "N/D" ELSE "7"]}

\* str.strip and str.lower on the first line of the body
Strip(text) == IF text = " " THEN "" ELSE text
Lower(text) == IF text \in {"No data", "NO DATA"} THEN "no data" ELSE text

\* line 233
IsNoData(text) == Strip(text) = "" \/ Lower(Strip(text)) = "no data"

\* csv.DictReader: row.get(column), None shown as the empty text
DictGet(head, row, column) == IF head = CsvHeader THEN row[column] ELSE ""

\* lines 238-242: the rows that have a Date
DatedRows(head, rows) == SelectSeq(rows, LAMBDA row : DictGet(head, row, "Date") # "")

\* float(cell or 0): an empty cell is 0, a number is itself, other text raises
FloatRaises(cell) == cell \notin {"", "7", "9"}
Float(cell) == CASE cell = "7" -> 7 [] cell = "9" -> 9 [] OTHER -> 0

\* lines 248-262: the try block over one row
RowSurvives(head, row) ==
    \A c \in PriceColumns : ~FloatRaises(DictGet(head, row, c))

ParseRow(head, row) ==
    [t |-> row.Date,
     o |-> Float(DictGet(head, row, "Open")),
     h |-> Float(DictGet(head, row, "High")),
     l |-> Float(DictGet(head, row, "Low")),
     c |-> Float(DictGet(head, row, "Close")),
     v |-> Float(DictGet(head, row, "Volume"))]

ParsedRows(head, rows) ==
    LET kept == SelectSeq(rows, LAMBDA row : RowSurvives(head, row))
    IN [k \in 1..Len(kept) |-> ParseRow(head, kept[k])]

\* the order of the date texts as strings
DateRank(date) == CASE date = "2024-01-02" -> 1 [] date = "2024-01-03" -> 2 [] OTHER -> 0

\* line 266: list.sort by "t", equal dates keep their order
RECURSIVE SortByDate(_)
SortByDate(parsed) ==
    IF Len(parsed) <= 1 THEN parsed
    ELSE LET n == Len(parsed)
             head == SortByDate(SubSeq(parsed, 1, n - 1))
             x == parsed[n]
             before == SelectSeq(head, LAMBDA y : DateRank(y.t) <= DateRank(x.t))
             after == SelectSeq(head, LAMBDA y : DateRank(y.t) > DateRank(x.t))
         IN before \o <<x>> \o after

StooqFailure(err) == [data |-> NoData, err |-> err]

\* lines 229-267 with a body without dated rows taken for a malformed one
StooqResultEmptyIsMalformed(ok, head, rows) ==
    IF ~ok THEN StooqFailure("network")
    ELSE IF IsNoData(head) THEN StooqFailure("symbol_not_found")
    ELSE LET parsed == ParsedRows(head, DatedRows(head, rows))
         IN IF Len(parsed) = 0 THEN StooqFailure("malformed")
            ELSE [data |-> SortByDate(parsed), err |-> "none"]

\* lines 229-267
StooqResult(ok, head, rows) ==
    IF ~ok THEN StooqFailure("network")
    ELSE IF IsNoData(head) THEN StooqFailure("symbol_not_found")
    ELSE IF Len(DatedRows(head, rows)) = 0 THEN StooqFailure("symbol_not_found")
    ELSE LET parsed == ParsedRows(head, DatedRows(head, rows))
         IN IF Len(parsed) = 0 THEN StooqFailure("malformed")
            ELSE [data |-> SortByDate(parsed), err |-> "none"]

\* line 227: requests.get returns a response
StooqGet(ok, head) ==
    /\ response.stage = "none"
    /\ response' = [response EXCEPT !.ok = ok, !.head = head, !.stage = "received"]
    /\ UNCHANGED <<clock, cache, usage, jit, pc, loc, res, stooqInv, alphaInv,
                   recLog, ncalls, nticks, batch, frame>>

\* line 227: requests.get raises
StooqGetRaises ==
    /\ response.stage = "none"
    /\ response' = [response EXCEPT !.stage = "raised"]
    /\ UNCHANGED <<clock, cache, usage, jit, pc, loc, res, stooqInv, alphaInv,
                   recLog, ncalls, nticks, batch, frame>>

\* response.text: one more line in the body of the response
StooqBodyRow(row) ==
    /\ response.stage = "received"
    /\ response.head \in {CsvHeader, OtherHeader}
    /\ Len(response.rows) < MaxCsvRows
    /\ response' = [response EXCEPT !.rows = Append(@, row)]
    /\ UNCHANGED <<clock, cache, usage, jit, pc, loc, res, stooqInv, alphaInv,
                   recLog, ncalls, nticks, batch, frame>>

\* lines 229-267
FetchStooqDaily ==
    /\ response.stage = "received"
    /\ LET r == StooqResult(response.ok, response.head, response.rows)
       IN response' = [response EXCEPT !.data = r.data, !.err = r.err,
                                       !.stage = "returned"]
    /\ UNCHANGED <<clock, cache, usage, jit, pc, loc, res, stooqInv, alphaInv,
                   recLog, ncalls, nticks, batch, frame>>

NextStooq ==
    \/ \E ok \in BOOLEAN, head \in Heads : StooqGet(ok, head)
    \/ StooqGetRaises
    \/ \E date \in CsvDates, cells \in CsvCells : StooqBodyRow(CsvRow(date, cells))
    \/ FetchStooqDaily

SpecStooq == Init /\ [][NextStooq]_vars

StooqReturned == response.stage = "returned"

\* the positions of the body's rows that have a date and whose cells are
\* empty or numbers
SurvivingRows ==
    {k \in 1..Len(response.rows) :
        /\ response.head = CsvHeader
        /\ response.rows[k].Date # ""
        /\ \A c \in PriceColumns : response.rows[k][c] \in {"", "7", "9"}}

DatedRowCount ==
    Cardinality({k \in 1..Len(response.rows) :
                   response.head = CsvHeader /\ response.rows[k].Date # ""})

WellFormedEmpty ==
    \/ response.head \in {"", " ", "No data", "NO DATA"}
    \/ DatedRowCount = 0

\* C21: fetch_stooq_daily answers an HTTP failure with 'network', an empty
\* body, a 'No data' marker or a body without dated rows with
\* 'symbol_not_found', dated rows none of which passes float() with
\* 'malformed', and otherwise returns the rows that pass, the others skipped,
\* without an error; exactly one of rows and error is present
C21_StooqFailureClasses ==
    StooqReturned =>
      /\ (response.data = NoData) # (response.err = "none")
      /\ ~response.ok => response.err = "network"
      /\ response.ok /\ WellFormedEmpty => response.err = "symbol_not_found"
      /\ response.ok /\ ~WellFormedEmpty /\ SurvivingRows = {}
           => response.err = "malformed"
      /\ response.ok /\ ~WellFormedEmpty /\ SurvivingRows # {} =>
           /\ response.err = "none"
           /\ Len(response.data) = Cardinality(SurvivingRows)
           /\ \A k \in SurvivingRows :
                \E j \in 1..Len(response.data) :
                  /\ response.data[j].t = response.rows[k].Date
                  /\ response.data[j].c = Float(response.rows[k].Close)
                  /\ response.data[j].o = Float(response.rows[k].Open)

C21_Witness ==
    /\ StooqReturned
    /\ response.ok
    /\ Len(response.rows) = 3
    /\ Cardinality(SurvivingRows) = 2
    /\ Len(response.data) = 2
    /\ response.err = "none"

C21_WitnessMalformed ==
    /\ StooqReturned
    /\ response.err = "malformed"
    /\ DatedRowCount = 2

\* the steps of the budgeted tier a call has behind it
AlphaInvokedInCall(p) == Len(alphaInv) - loc[p].pre_alpha
AlphaRecordedInCall(p) == Len(recLog) - loc[p].pre_rec

\* C22: in the budgeted tier the call first finds can_use_alpha(now) true,
\* then wait_for_alpha_slot returns, then fetch_alpha_daily is invoked, then
\* record_provider_call('alpha', now) runs, then the delay of
\* ALPHA_VANTAGE_MIN_REQUEST_INTERVAL passes; the call is recorded whether
\* the provider gave rows or an error
C22_BudgetedTierOrder ==
    LET p == Caller
    IN /\ pc[p] \in {"check", "stooq", "stooq_ret", "alpha_gate"} =>
            AlphaInvokedInCall(p) = 0 /\ AlphaRecordedInCall(p) = 0
       /\ pc[p] = "wait" =>
            /\ CanUseAlpha(usage, loc[p].now)
            /\ AlphaInvokedInCall(p) = 0 /\ AlphaRecordedInCall(p) = 0
       /\ pc[p] = "alpha" =>
            /\ SlotSleep(usage, clock) = 0
            /\ AlphaInvokedInCall(p) = 0 /\ AlphaRecordedInCall(p) = 0
       /\ pc[p] \in {"rec_load", "rec_save"} =>
            AlphaInvokedInCall(p) = 1 /\ AlphaRecordedInCall(p) = 0
       /\ pc[p] = "alpha_ret" =>
            /\ AlphaInvokedInCall(p) = 1 /\ AlphaRecordedInCall(p) = 1
            /\ recLog[Len(recLog)] = loc[p].now
            /\ AlphaUsedToday(usage, loc[p].now)
                 = AlphaUsedToday(loc[p].pre_usage, loc[p].now) + 1
            /\ clock >= alphaInv[Len(alphaInv)] + ALPHA_VANTAGE_MIN_REQUEST_INTERVAL

\* the provider answered with an error and the call is in the ledger
C22_Witness ==
    /\ pc[Caller] = "alpha_ret"
    /\ loc[Caller].aerr # "none"
    /\ AlphaRecordedInCall(Caller) = 1
    /\ Len(recLog) > 1

-----------------------------------------------------------------------------
(* The ledger over time: calls of either provider are recorded and the       *)
(* windows read, seconds, minutes or a day apart                              *)

\* usage.py:81-100, for either provider, on a well-formed ledger
RecordProviderCallOf(p, provider) ==
    /\ pc[p] = "idle"
    /\ ~OpRaises("record_provider_call", usage)
    /\ loc' = [loc EXCEPT ![p] =
                 [InitLoc EXCEPT !.op = "record_provider_call",
                                 !.provider = provider, !.now = clock,
                                 !.pre_usage = usage,
                                 !.ubuf = RecordProviderCall(LoadUsage(usage),
                                                             provider, clock)]]
    /\ usage' = RecordProviderCall(LoadUsage(usage), provider, clock)
    /\ recLog' = IF provider = "alpha" THEN Append(recLog, clock) ELSE recLog
    /\ res' = [res EXCEPT ![p] = [NoResult EXCEPT !.status = "returned"]]
    /\ ncalls' = ncalls + 1
    /\ UNCHANGED <<clock, cache, jit, pc, stooqInv, alphaInv, nticks, batch,
                   frame, response>>

WindowSteps == {ShortStep, WindowStep, LongStep}

NextWindow ==
    \/ ncalls < MaxWindowOps /\ \E pr \in Providers : RecordProviderCallOf(Caller, pr)
    \/ ncalls < MaxWindowOps /\ RecordRequestOp(Caller, FALSE)
    \/ ncalls < MaxWindowOps /\ RecordStooqFailureOp(Caller)
    \/ ncalls < MaxWindowOps /\ CanUseAlphaOp(Caller)
    \/ ncalls < MaxWindowOps /\ AlphaCallsLastMinuteOp(Caller)
    \/ /\ nticks < MaxWindowTicks
       /\ \E d \in WindowSteps : TodayKey(clock + d) \in Days /\ Tick(d)

SpecWindow == Init /\ [][NextWindow]_vars

\* C23: record_provider_call(provider, now) adds 1 to the provider's count
\* of now's date and puts now into the provider's minute window; the counts
\* of all other dates and of the other provider, the other provider's window
\* and the stats stay as they were; no call of the ledger resets or lowers
\* the count of a date
C23_RecordProviderCallFrame ==
    /\ \A d \in Days : usage.daily["alpha"][d] = RecordedOn(d)
    /\ \A p \in Procs :
         LedgerOpEnded(p) /\ res[p].status = "returned" =>
           LET before == loc[p].pre_usage
               after == loc[p].ubuf
               provider == loc[p].provider
               today == TodayKey(loc[p].now)
           IN IF loc[p].op = "record_provider_call"
              THEN /\ after.daily[provider][today] = before.daily[provider][today] + 1
                   /\ \A pr \in Providers, d \in Days :
                        (pr # provider \/ d # today) =>
                            after.daily[pr][d] = before.daily[pr][d]
                   /\ Len(after.minute[provider]) >= 1
                   /\ after.minute[provider][Len(after.minute[provider])] = loc[p].now
                   /\ \A pr \in Providers \ {provider} :
                        after.minute[pr] = before.minute[pr]
                   /\ after.stats = before.stats
              ELSE after.daily = before.daily

\* a call is recorded on a later day than earlier calls of both providers
C23_Witness ==
    /\ LedgerOpEnded(Caller)
    /\ loc[Caller].op = "record_provider_call"
    /\ loc[Caller].provider = "fred"
    /\ TodayKey(loc[Caller].now) = 1
    /\ loc[Caller].pre_usage.daily["alpha"][0] = 2
    /\ loc[Caller].pre_usage.daily["fred"][0] = 1
    /\ usage.daily["fred"][1] = 1
    /\ usage.daily["fred"][0] = 1

\* the operations that read or append to a minute window
WindowOps == {"alpha_calls_last_minute", "can_use_alpha", "record_provider_call"}

WindowOf(p) ==
    IF loc[p].op = "record_provider_call" THEN loc[p].provider ELSE "alpha"

\* the calls of alpha recorded within the 60 seconds before t
RecordedWithinWindow(t) ==
    Cardinality({i \in DOMAIN recLog : t - recLog[i] <= WindowSeconds * Second})

\* C24: after alpha_calls_last_minute(now), can_use_alpha(now) or
\* record_provider_call(provider, now) the stored minute window of the
\* provider holds no timestamp older than 60 seconds before now, and the
\* count a read returns is the number of calls recorded in those 60 seconds
C24_WindowPrunedOnReadAndAppend ==
    \A p \in Procs :
        (LedgerOpEnded(p) /\ res[p].status = "returned" /\ loc[p].op \in WindowOps) =>
            /\ \A i \in DOMAIN loc[p].ubuf.minute[WindowOf(p)] :
                 loc[p].now - loc[p].ubuf.minute[WindowOf(p)][i]
                    <= WindowSeconds * Second
            /\ loc[p].op = "alpha_calls_last_minute" =>
                 res[p].value.count = RecordedWithinWindow(loc[p].now)

\* what holds of the code: an append leaves the stored window pruned, a read
\* returns the count of the last 60 seconds and leaves the file as it was
C24_AppendPrunesReadCounts ==
    \A p \in Procs :
        (LedgerOpEnded(p) /\ res[p].status = "returned" /\ loc[p].op \in WindowOps) =>
            /\ loc[p].op = "record_provider_call" =>
                 \A i \in DOMAIN loc[p].ubuf.minute[WindowOf(p)] :
                    loc[p].now - loc[p].ubuf.minute[WindowOf(p)][i]
                       <= WindowSeconds * Second
            /\ loc[p].op = "alpha_calls_last_minute" =>
                 /\ res[p].value.count = RecordedWithinWindow(loc[p].now)
                 /\ loc[p].ubuf = loc[p].pre_usage
            /\ loc[p].op = "can_use_alpha" => loc[p].ubuf = loc[p].pre_usage

-----------------------------------------------------------------------------
(* Waiting for a slot: one caller waits in wait_for_alpha_slot, another      *)
(* records calls of alpha before and during the wait                         *)

Other == CHOOSE p \in Procs : p # Caller

\* the calls of wait_for_alpha_slot so far: every other call is recorded
SlotWaits == ncalls - Len(recLog)

NextSlot ==
    \/ /\ RecordedOn(TodayKey(clock)) < MaxSlotRecords
       /\ RecordProviderCallOf(Other, "alpha")
    \/ SlotWaits < MaxSlotWaits /\ WaitForAlphaSlotOp(Caller)
    \/ SlotTurn(Caller)
    \/ nticks < MaxSlotTicks /\ Tick(ShortStep)

SpecSlot == Init /\ [][NextSlot]_vars

\* the loop of wait_for_alpha_slot is never kept from its next turn
SpecSlotFair == SpecSlot /\ WF_vars(SlotTurn(Caller))

Waiting(p) == pc[p] = "slot"

DailyExhausted == RecordedOn(TodayKey(clock)) >= ALPHA_DAILY_BUDGET

\* a turn of the waiting loop: it returns or it sleeps
SlotStep(p) == Waiting(p) /\ (pc'[p] # pc[p] \/ clock' # clock)

\* C25: wait_for_alpha_slot returns at once, without sleeping, when the
\* calls recorded today have reached ALPHA_DAILY_BUDGET, whether or not the
\* minute window is full; otherwise it returns only at a moment when fewer
\* than ALPHA_PER_MINUTE_BUDGET recorded calls lie in the last 60 seconds
C25_SlotReturn ==
    [][ SlotStep(Caller) =>
          /\ DailyExhausted => pc'[Caller] = "idle" /\ clock' = clock
          /\ (~DailyExhausted /\ pc'[Caller] = "idle") =>
                /\ RecordedWithinWindow(clock) < ALPHA_PER_MINUTE_BUDGET
                /\ clock' = clock
          /\ pc'[Caller] = "idle" => res'[Caller].status = "returned" ]_vars

\* the wait returned with the day's budget used up and the window full
C25_Witness ==
    /\ LedgerOpEnded(Caller)
    /\ loc[Caller].op = "wait_for_alpha_slot"
    /\ res[Caller].status = "returned"
    /\ clock = loc[Caller].now
    /\ DailyExhausted
    /\ RecordedWithinWindow(clock) >= ALPHA_PER_MINUTE_BUDGET

\* the wait slept and returned with room in the window
C25_WitnessSlept ==
    /\ LedgerOpEnded(Caller)
    /\ loc[Caller].op = "wait_for_alpha_slot"
    /\ clock > loc[Caller].now
    /\ ~DailyExhausted

\* C26: wait_for_alpha_slot terminates: with time advancing by its sleeps
\* and no recorded timestamp in the future, a caller that waits returns,
\* also while another caller keeps recording calls
C26_SlotTerminates == Waiting(Caller) ~> LedgerOpEnded(Caller)

\* no recorded timestamp lies in the future
NoFutureTimestamp == \A i \in DOMAIN recLog : recLog[i] <= clock

\* the wait returned after it slept until the oldest timestamp of the full
\* window was more than 60 seconds old, while the other caller recorded
C26_Witness ==
    /\ LedgerOpEnded(Caller)
    /\ loc[Caller].op = "wait_for_alpha_slot"
    /\ res[Caller].status = "returned"
    /\ NoFutureTimestamp
    /\ clock > loc[Caller].now
    /\ \E i \in DOMAIN recLog :
          /\ recLog[i] <= loc[Caller].now
          /\ clock - recLog[i] > WindowSeconds * Second
    /\ \E i \in DOMAIN recLog : recLog[i] > loc[Caller].now

-----------------------------------------------------------------------------
(* The primary adapter's answer in fetch_stock_history                       *)

\* the primary adapter was called in p's call, answered, and the call has
\* judged the answer
PrimaryAnswered(p) ==
    /\ InOrAfterFetch(p)
    /\ Truthy(loc[p].sdata) \/ loc[p].serr # "none"
    /\ pc[p] \notin {"check", "stooq", "stooq_ret"}

StooqFailuresGrewBy(p, n) ==
    usage.stats.stooq_failures = loc[p].pre_usage.stats.stooq_failures + n

\* the steps after the primary tier
LaterSteps ==
    {"alpha_gate", "wait", "alpha", "rec_load", "rec_save", "alpha_ret",
     "set_load", "set_save", "ret_miss", "fallback"}

\* C27: when the primary adapter answers with an error and no rows, or with
\* rows that are insufficient, stooq_failures grows by exactly 1, stooq_error
\* is the adapter's error or "insufficient", the insufficient rows are not
\* stored and the call goes on to the later steps; when the primary answer
\* is sufficient stooq_failures is unchanged
C27_PrimaryFailure ==
    \A p \in Procs :
        PrimaryAnswered(p) =>
            IF PrimaryGood(p)
            THEN StooqFailuresGrewBy(p, 0)
            ELSE /\ StooqFailuresGrewBy(p, 1)
                 /\ loc[p].stooq_error = PrimaryError(p)
                 /\ res[p].status = "returned" =>
                       /\ res[p].stooq_error = PrimaryError(p)
                       /\ res[p].cache_status = "miss" =>
                             res[p].provider \in {"alpha", "none"}
                 /\ pc[p] # "idle" => pc[p] \in LaterSteps
                 /\ \/ GetEntry(cache, loc[p].symbol) = loc[p].cached
                    \/ /\ GetEntry(cache, loc[p].symbol).provider = "alpha"
                       /\ GetEntry(cache, loc[p].symbol).data = loc[p].adata

\* a call ended whose primary answer was insufficient rows, with nothing
\* stored before or after
C27_Witness ==
    /\ FetchEnded(Caller)
    /\ PrimaryAnswered(Caller)
    /\ Truthy(loc[Caller].sdata) /\ ~PrimaryGood(Caller)
    /\ StooqFailuresGrewBy(Caller, 1)
    /\ res[Caller].status = "returned"
    /\ res[Caller].stooq_error = "insufficient"
    /\ GetEntry(cache, loc[Caller].symbol) = NoEntry

\* a call ended whose primary answer was an error, and the budgeted tier
\* stored its rows
C27_WitnessError ==
    /\ FetchEnded(Caller)
    /\ loc[Caller].serr = "network"
    /\ res[Caller].status = "returned"
    /\ res[Caller].provider = "alpha"
    /\ StooqFailuresGrewBy(Caller, 1)

\* a call ended whose primary answer was sufficient
C27_WitnessSufficient ==
    /\ FetchEnded(Caller)
    /\ PrimaryAnswered(Caller)
    /\ PrimaryGood(Caller)
    /\ usage.stats.stooq_failures > 0

-----------------------------------------------------------------------------
(* What fetch_stock_history writes to the cache store                        *)

\* p's call ended in a successful provider fetch
EndedInProviderFetch(p) ==
    /\ FetchEnded(p)
    /\ res[p].status = "returned"
    /\ res[p].cache_status = "miss"
    /\ res[p].provider \in {"stooq", "alpha"}

\* the keys other than key hold what they held in store c
SameButAt(c, key) ==
    \A k \in Symbols \ {key} : GetEntry(cache, k) = GetEntry(c, k)

\* C28: the cache store is modified only by a call that ends in a successful
\* provider fetch, and only at that call's key: a call that ends in a cache
\* hit, a stale fallback or a total failure leaves the whole store as it
\* was, and under sequential execution no key once present is removed
C28_CacheStoreFrame ==
    /\ [](\A p \in Procs :
            InOrAfterFetch(p) =>
               /\ SameButAt(loc[p].pre_cache, loc[p].symbol)
               /\ (FetchEnded(p) /\ ~EndedInProviderFetch(p)) =>
                     cache = loc[p].pre_cache)
    /\ [][ /\ \A k \in Symbols :
                GetEntry(cache, k) # NoEntry => GetEntry(cache', k) # NoEntry
           /\ cache' # cache =>
                \E p \in Procs : /\ pc[p] = "set_save"
                                 /\ pc'[p] = "ret_miss"
                                 /\ SameButAt(cache, loc[p].symbol)' ]_vars

\* a call ended in a stale fallback and left the store, which holds its key, as it was
C28_Witness ==
    /\ FetchEnded(Caller)
    /\ res[Caller].status = "returned"
    /\ res[Caller].cache_status = "stale"
    /\ cache = loc[Caller].pre_cache
    /\ GetEntry(cache, loc[Caller].symbol) # NoEntry

\* a call ended in a provider fetch and wrote its key next to another
C28_WitnessFetch ==
    /\ EndedInProviderFetch(Caller)
    /\ cache # loc[Caller].pre_cache
    /\ \A k \in Symbols : GetEntry(cache, k) # NoEntry

\* a call ended in a total failure
C28_WitnessNone ==
    /\ FetchEnded(Caller)
    /\ res[Caller].status = "returned"
    /\ res[Caller].provider = "none"
    /\ \E k \in Symbols : GetEntry(cache, k) # NoEntry

-----------------------------------------------------------------------------
(* Two processes calling fetch_stock_history at the same time on the shared  *)
(* cache store and usage file                                                *)

RaceStep(p) ==
    \/ ReturnHit(p)
    \/ EnterRefresh(p)
    \/ \E data \in GoodStooqRowsets : FetchStooq(p, data, "none", 0)
    \/ FetchStooq(p, NoData, "network", 0)
    \/ StooqSufficient(p)
    \/ StooqFailed(p)
    \/ SetEntryLoad(p)
    \/ SetEntrySave(p)
    \/ ReturnMiss(p)
    \/ EnterAlpha(p)
    \/ WaitForAlphaSlot(p)
    \/ FetchAlpha(p, Rows(3, 30), "none", 0)
    \/ \E err \in AlphaErrors : FetchAlpha(p, NoData, err, 0)
    \/ RecordCallLoad(p)
    \/ RecordCallSave(p)
    \/ AlphaSucceeded(p)
    \/ AlphaFailed(p)
    \/ ReturnNone(p)

NextRace ==
    \/ ncalls < MaxRaceCalls /\ Begin(Caller, "AAPL", "daily", "1d", 60, "demo")
    \/ /\ ncalls < MaxRaceCalls
       /\ \E symbol \in Symbols : Begin(Other, symbol, "daily", "1d", 60, "demo")
    \/ \E p \in Procs : RaceStep(p)

SpecRace == Init /\ [][NextRace]_vars

\* p's call went through the budgeted tier and recorded its call
RecordedCall(p) ==
    /\ InOrAfterFetch(p)
    /\ Truthy(loc[p].adata) \/ loc[p].aerr # "none"
    /\ pc[p] \notin {"rec_load", "rec_save"}

\* p's call stored an entry at its key
StoredEntry(p) ==
    /\ InOrAfterFetch(p)
    /\ loc[p].entry # InitLoc.entry
    /\ pc[p] \in {"ret_miss", "idle"}

PresentKeys == {k \in Symbols : GetEntry(cache, k) # NoEntry}

\* the save of record_provider_call by p
RecordSaveStep(p) == pc[p] = "rec_save" /\ pc'[p] = "alpha_ret"

\* the save of set_entry by p
EntrySaveStep(p) == pc[p] = "set_save" /\ pc'[p] = "ret_miss"

\* C29: with two processes writing the shared stores an update can be lost.
\* Each save writes back what its process loaded: the day's counter becomes
\* the loaded count plus 1 and the keys other than the call's own become what
\* was loaded, whatever the file holds by then. So the counter is at most the
\* number of calls recorded and can be less, and a key stored by the other
\* process meanwhile is gone.
C29_LostUpdate ==
    /\ [](AlphaUsedToday(usage, clock) <= Len(recLog))
    /\ [][\A p \in Procs :
            /\ RecordSaveStep(p) =>
                  AlphaUsedToday(usage', loc[p].now)
                     = AlphaUsedToday(loc[p].ubuf, loc[p].now) + 1
            /\ EntrySaveStep(p) =>
                  \A k \in Symbols \ {loc[p].symbol} :
                     GetEntry(cache', k) = loc[p].cbuf[k] ]_vars

\* both processes recorded a call of alpha and the day's counter grew by 1;
\* both stored an entry, at different keys, and one key is present
C29_Witness ==
    /\ \A p \in Procs : FetchEnded(p) /\ RecordedCall(p) /\ StoredEntry(p)
    /\ Len(recLog) = 2
    /\ AlphaUsedToday(usage, clock) = 1
    /\ loc[Caller].symbol # loc[Other].symbol
    /\ Cardinality(PresentKeys) = 1

\* the same two calls one after the other: the counter grew by 2 and both
\* keys are present
C29_WitnessSequential ==
    /\ \A p \in Procs : FetchEnded(p) /\ RecordedCall(p) /\ StoredEntry(p)
    /\ Len(recLog) = 2
    /\ AlphaUsedToday(usage, clock) = 2
    /\ Cardinality(PresentKeys) = 2

\* p's call called the primary adapter
CalledPrimary(p) ==
    /\ InOrAfterFetch(p)
    /\ Truthy(loc[p].sdata) \/ loc[p].serr # "none"

\* p's call is past the look at the entry it read
PastCheck(p) == InOrAfterFetch(p) /\ pc[p] \notin {"check", "stooq"}

\* C30: there is no in-flight de-duplication by key. A non-force call goes to
\* the primary adapter exactly when the entry it read at its start was absent
\* or expired, whatever the other process is doing: two concurrent calls for
\* one symbol can both call the primary adapter and both reach the budgeted
\* tier, while a call that starts after the other's entry was stored is a hit
\* and calls no adapter.
C30_NoInFlightDeduplication ==
    /\ [](\A p \in Procs :
            PastCheck(p) =>
               /\ CalledPrimary(p) <=> ~FreshAtStart(p)
               /\ FreshAtStart(p) =>
                     /\ ~RecordedCall(p)
                     /\ FetchEnded(p) => res[p].cache_status = "hit")
    /\ [][\A p \in Procs :
            (pc[p] = "check" /\ pc'[p] # "check" /\ ~FreshAtStart(p)) =>
               pc'[p] = "stooq" ]_vars

\* two concurrent calls for one symbol both called the primary adapter and
\* both reached the budgeted tier
C30_Witness ==
    /\ \A p \in Procs : FetchEnded(p) /\ CalledPrimary(p) /\ RecordedCall(p)
    /\ loc[Caller].symbol = loc[Other].symbol
    /\ \A p \in Procs : loc[p].mode # "force" /\ loc[p].pre_stooq = 0
    /\ stooqInv = 2
    /\ Len(alphaInv) = 2

\* two concurrent calls for one symbol both got sufficient rows of the
\* primary adapter
C30_WitnessBothSucceed ==
    /\ \A p \in Procs : FetchEnded(p) /\ CalledPrimary(p) /\ PrimaryGood(p)
    /\ loc[Caller].symbol = loc[Other].symbol
    /\ stooqInv = 2

\* the same two calls one after the other: the primary adapter succeeded in
\* the first and was called once
C30_WitnessSequential ==
    /\ \A p \in Procs : FetchEnded(p)
    /\ loc[Caller].symbol = loc[Other].symbol
    /\ \E p \in Procs :
          /\ CalledPrimary(p) /\ PrimaryGood(p)
          /\ \A q \in Procs \ {p} : FreshAtStart(q) /\ res[q].cache_status = "hit"
    /\ stooqInv = 1

-----------------------------------------------------------------------------
(* Two callers on the budgeted tier: one makes forced calls one after the    *)
(* other, the second joins when one slot of the minute window is left        *)

RushStep(p) ==
    \/ EnterRefresh(p)
    \/ FetchStooq(p, NoData, "network", 0)
    \/ StooqFailed(p)
    \/ EnterAlpha(p)
    \/ SkipAlpha(p)
    \/ WaitForAlphaSlot(p)
    \/ \E err \in AlphaErrors : FetchAlpha(p, NoData, err, 0)
    \/ RecordCallLoad(p)
    \/ RecordCallSave(p)
    \/ AlphaFailed(p)
    \/ ReturnNone(p)

NextRush ==
    \/ ncalls < MaxRushCalls /\ Begin(Caller, "AAPL", "force", "1d", 60, "demo")
    \/ /\ ncalls < MaxRushCalls
       /\ Len(alphaInv) >= ALPHA_PER_MINUTE_BUDGET - 1
       /\ Begin(Other, "AAPL", "force", "1d", 60, "demo")
    \/ \E p \in Procs : RushStep(p)

SpecRush == Init /\ [][NextRush]_vars

\* the calls of the budgeted adapter in the 60 seconds up to t
InvokedWithinWindow(t) ==
    Cardinality({i \in DOMAIN alphaInv :
                    alphaInv[i] <= t /\ t - alphaInv[i] <= WindowSeconds * Second})

\* C31: with two callers the gate and the slot wait reserve nothing. Each
\* caller passes can_use_alpha on the ledger as it is at that moment and
\* leaves wait_for_alpha_slot on the ledger as it is at that moment, and the
\* ledger shows a call only once it is recorded; so both can pass on the same
\* ledger and both call the adapter, and the calls of a 60-second window (or
\* of a day) exceed the budget.
C31_RacingCallersPassTogether ==
    [][\A p \in Procs :
          /\ (pc[p] = "alpha_gate" /\ pc'[p] = "wait") =>
                CanUseAlpha(usage, loc[p].now)
          /\ (pc[p] = "wait" /\ pc'[p] = "alpha") =>
                \/ AlphaUsedToday(usage, clock) >= ALPHA_DAILY_BUDGET
                \/ AlphaCallsLastMinute(usage, clock) < ALPHA_PER_MINUTE_BUDGET
          /\ (pc[p] = "alpha" /\ pc'[p] # "alpha") =>
                /\ Len(alphaInv') = Len(alphaInv) + 1
                /\ usage' = usage ]_vars

\* both callers passed the gate and the wait on the same ledger, both called
\* the adapter, and the window holds more calls than the budget
C31_Witness ==
    /\ \A p \in Procs : FetchEnded(p) /\ RecordedCall(p)
    /\ loc[Caller].pre_rec = loc[Other].pre_rec
    /\ loc[Caller].pre_usage = loc[Other].pre_usage
    /\ InvokedWithinWindow(clock) > ALPHA_PER_MINUTE_BUDGET

\* the rows returned are in the order of their dates, equal dates allowed
SortedByDate(data) ==
    \A i, j \in 1..Len(data) : i < j => DateRank(data[i].t) <= DateRank(data[j].t)

\* C32: the rows fetch_stooq_daily returns are sorted ascending by date with
\* strictly increasing dates, no two rows sharing a date, whatever rows the
\* response holds
C32_StrictlyIncreasingDates ==
    (StooqReturned /\ response.err = "none") =>
        \A i, j \in 1..Len(response.data) :
            i < j => DateRank(response.data[i].t) < DateRank(response.data[j].t)

\* what does hold for C32: the rows returned are sorted ascending by date,
\* and two rows share a date only when two surviving rows of the body do
C32_SortedAscending ==
    (StooqReturned /\ response.err = "none") =>
        /\ SortedByDate(response.data)
        /\ \A i, j \in 1..Len(response.data) :
              (i < j /\ response.data[i].t = response.data[j].t) =>
                 \E k, m \in SurvivingRows :
                    k # m /\ response.rows[k].Date = response.rows[m].Date

-----------------------------------------------------------------------------
(* The results of fetch_stock_history                                        *)

FetchReturned(p) == FetchEnded(p) /\ res[p].status = "returned"

\* C33: a result with is_stale true (cache_status 'stale') is returned only
\* when the entry it carries is expired, its expires_at at or before the
\* call's start time, in both modes
C33_StaleOnlyWhenExpired ==
    \A p \in Procs :
        (FetchReturned(p) /\ res[p].is_stale) => res[p].expires_at <= loc[p].now

\* what does hold for C33: a stale result carries the entry read at the
\* start, and that entry is expired unless the call was forced
C33_StaleExpiredUnlessForced ==
    \A p \in Procs :
        (FetchReturned(p) /\ res[p].is_stale) =>
            /\ res[p].cache_status = "stale"
            /\ loc[p].cached # NoEntry
            /\ res[p].expires_at = loc[p].cached.expires_at
            /\ loc[p].mode # "force" => res[p].expires_at <= loc[p].now

\* a request at day granularity for at most 90 points
ShortDailyRequest(p) ==
    /\ loc[p].interval \in {"1d", "daily"}
    /\ loc[p].chart_points <= MaxShortWindow

TailRows(p) == Len(TailSlice(res[p].data, loc[p].chart_points))

TinyDailyRequest(p) ==
    /\ loc[p].interval \in {"1d", "daily"}
    /\ loc[p].chart_points >= 1
    /\ loc[p].chart_points < MinRows

\* p's call stored no primary result and returned none
NoPrimaryResult(p) ==
    /\ res[p].status = "returned" =>
          ~(res[p].provider = "stooq" /\ res[p].cache_status = "miss")
    /\ \/ GetEntry(cache, loc[p].symbol) = loc[p].cached
       \/ GetEntry(cache, loc[p].symbol).provider = "alpha"

\* C35: for a request at day granularity with 1 <= chart_points <= 24 the
\* primary adapter's rows are insufficient however many they are, so no such
\* call stores or returns a primary result, and every such call that is not
\* a cache hit records a primary failure
C35_TinyWindowNeverPrimary ==
    \A p \in Procs :
        (FetchEnded(p) /\ TinyDailyRequest(p)) =>
            /\ NoPrimaryResult(p)
            /\ ~(res[p].status = "returned" /\ res[p].cache_status = "hit") =>
                  StooqFailuresGrewBy(p, 1)

\* what does hold for C35: the same for the calls that return
C35_TinyWindowNeverPrimaryIfReturned ==
    \A p \in Procs :
        (FetchEnded(p) /\ TinyDailyRequest(p)) =>
            /\ NoPrimaryResult(p)
            /\ (res[p].status = "returned" /\ res[p].cache_status # "hit") =>
                  /\ StooqFailuresGrewBy(p, 1)
                  /\ Truthy(loc[p].sdata) => res[p].stooq_error = "insufficient"

\* such a call returned after 25 rows of the primary adapter were judged
\* insufficient
C35_Witness ==
    /\ FetchReturned(Caller)
    /\ TinyDailyRequest(Caller)
    /\ Len(loc[Caller].sdata) = MinRows
    /\ res[Caller].stooq_error = "insufficient"
    /\ StooqFailuresGrewBy(Caller, 1)

\* a turn of the wait inside fetch_stock_history
WaitStep(p) == pc[p] = "wait" /\ (pc'[p] # "wait" \/ clock' # clock)

\* C36: with one sequential caller and a clock that does not go back, the
\* wait_for_alpha_slot that fetch_stock_history reaches, after can_use_alpha
\* was true for the call's start time, returns without sleeping
C36_WaitNeverSleepsSequentially ==
    [][\A p \in Procs :
          WaitStep(p) => /\ pc'[p] = "alpha"
                         /\ clock' = clock
                         /\ CanUseAlpha(usage, loc[p].now)
                         /\ clock >= loc[p].now ]_vars

\* the wait returned at once with four calls in the minute window, later than
\* the call's start
C36_Witness ==
    /\ pc[Caller] = "alpha"
    /\ clock > loc[Caller].now
    /\ AlphaCallsLastMinute(usage, loc[Caller].now) = ALPHA_PER_MINUTE_BUDGET - 1

\* C37: every result of fetch_stock_history has cache_status 'hit', 'miss'
\* or 'stale'; is_stale is true exactly when cache_status is 'stale'; the
\* data is None exactly when the provider is None, and then cache_status is
\* 'miss'; with 'hit' or 'stale' the provider, fetched_at and expires_at are
\* those of the entry read at the start of the call
C37_ResultShape ==
    \A p \in Procs :
        FetchReturned(p) =>
            /\ res[p].cache_status \in {"hit", "miss", "stale"}
            /\ res[p].is_stale <=> res[p].cache_status = "stale"
            /\ (res[p].data = NoData) <=> (res[p].provider = "none")
            /\ res[p].provider = "none" => res[p].cache_status = "miss"
            /\ res[p].cache_status \in {"hit", "stale"} =>
                  /\ loc[p].cached # NoEntry
                  /\ res[p].provider = loc[p].cached.provider
                  /\ res[p].fetched_at = loc[p].cached.fetched_at
                  /\ res[p].expires_at = loc[p].cached.expires_at

\* a hit returned the fields of an entry fetched before the call started
C37_Witness ==
    /\ FetchReturned(Caller)
    /\ res[Caller].cache_status = "hit"
    /\ res[Caller].provider = "alpha"
    /\ res[Caller].fetched_at < loc[Caller].now

\* a stale result
C37_WitnessStale ==
    /\ FetchReturned(Caller)
    /\ res[Caller].cache_status = "stale"
    /\ res[Caller].fetched_at < loc[Caller].now

\* a result without data
C37_WitnessNone ==
    /\ FetchReturned(Caller)
    /\ res[Caller].data = NoData
    /\ res[Caller].stooq_error # "none"

\* p starts a non-force call for the symbol of its last call, which ended in
\* a provider fetch, less than an hour after that call started
CallsAgainAtOnce(p) ==
    /\ pc[p] = "idle" /\ pc'[p] = "check"
    /\ EndedInProviderFetch(p)
    /\ loc'[p].symbol = loc[p].symbol
    /\ loc'[p].mode # "force"
    /\ loc'[p].now - loc[p].now < Hour

\* C38: every entry fetch_stock_history stores has expires_at greater than
\* its fetched_at and greater than the time it is written, so a non-force
\* call for the same symbol right after a successful fetch is a cache hit
C38_EntryOutlivesItsWrite ==
    /\ [](\A p \in Procs :
            JustWrote(p) =>
               LET e == cache[loc[p].symbol]
               IN  /\ e.expires_at > e.fetched_at
                   /\ e.expires_at > clock
                   /\ e.fetched_at = loc[p].now)
    /\ [][\A p \in Procs : CallsAgainAtOnce(p) => IsHit(loc'[p])]_vars

\* a call that starts before midnight and writes its entry after it: the
\* entry expires on the day after the write
C38_Witness ==
    \E p \in Procs :
        /\ JustWrote(p)
        /\ loc[p].entry.provider = "stooq"
        /\ TodayKey(loc[p].now) < TodayKey(clock)
        /\ TodayKey(cache[loc[p].symbol].expires_at) = TodayKey(clock) + 1

\* a non-force call right after a provider fetch for the same symbol
C38_WitnessHit ==
    /\ FetchReturned(Caller)
    /\ res[Caller].cache_status = "hit"
    /\ loc[Caller].now - res[Caller].fetched_at < Hour

----------------------------------------------------------------------------
(* The request counters and the cache hit rate.                             *)

\* a step of a ledger operation, as opposed to a change of the file from
\* outside the program
LedgerOpStep == ncalls' # ncalls \/ \E p \in Procs : pc[p] = "slot"

SnapshotReturned(p) ==
    /\ loc[p].op = "usage_snapshot"
    /\ res[p].status = "returned"

\* C39: 0 <= cache_hits <= requests in every ledger state, no operation
\* decreases either counter, and usage_snapshot reports a hit rate of 0 when
\* requests is 0 and of cache_hits / requests, between 0 and 1, otherwise
C39_HitRate ==
    /\ [](IsObject(LoadUsage(usage)) =>
            /\ 0 <= StatOf(LoadUsage(usage), "cache_hits")
            /\ StatOf(LoadUsage(usage), "cache_hits")
                   <= StatOf(LoadUsage(usage), "requests"))
    /\ [][(LedgerOpStep /\ IsObject(LoadUsage(usage))) =>
            /\ IsObject(LoadUsage(usage'))
            /\ StatOf(LoadUsage(usage'), "requests")
                   >= StatOf(LoadUsage(usage), "requests")
            /\ StatOf(LoadUsage(usage'), "cache_hits")
                   >= StatOf(LoadUsage(usage), "cache_hits")]_vars
    /\ [](\A p \in Procs :
            SnapshotReturned(p) =>
               LET v == res[p].value
                   u == LoadUsage(loc[p].pre_usage)
               IN  /\ v.requests = StatOf(u, "requests")
                   /\ v.cache_hits = StatOf(u, "cache_hits")
                   /\ v.requests = 0 => v.hitRate.num = 0
                   /\ v.hitRate.den > 0
                   /\ v.hitRate.num * v.requests = v.cache_hits * v.hitRate.den
                   /\ 0 <= v.hitRate.num /\ v.hitRate.num <= v.hitRate.den)

\* a snapshot of a ledger with hits and misses: a rate strictly between 0
\* and 1
C39_Witness ==
    /\ SnapshotReturned(Caller)
    /\ res[Caller].value.requests >= 3
    /\ res[Caller].value.hitRate.num > 0
    /\ res[Caller].value.hitRate.num < res[Caller].value.hitRate.den

\* a snapshot before any request
C39_WitnessNoRequests ==
    /\ SnapshotReturned(Caller)
    /\ res[Caller].value.requests = 0
    /\ res[Caller].value.hitRate.num = 0

====
